---- MODULE Spec2Model ----
(***************************************************************************)
(* Model of the review-reply service: the auto-reply scheduler and the     *)
(* per-tenant reply loop (auto.js), the tenant store (businesses.js,       *)
(* db.js), the tenant endpoints of index.js, the Pro contact store         *)
(* (proContacts.js, db.js), the birthday matcher and the send routines      *)
(* (proCampaigns.js), the campaign scheduler (index.js) and the            *)
(* unsubscribe tokens (campaignEmail.js).                                  *)
(***************************************************************************)
EXTENDS Integers, Sequences, FiniteSets, TLC

(* ---------------------------- bounds ----------------------------------- *)
MaxRuns == 3        \* call slots: processPendingReviews / free-reply calls of one behaviour
MaxCalls == 2       \* calls launched against the single tenant of SpecAuto
MaxReviews == 2     \* review ids 1..MaxReviews per location
MaxContacts == 1       \* contacts handed to the birthday filter
MaxRows == 2           \* rows of one uploaded contact list
MaxTime == 4        \* the clock runs 0..MaxTime
MaxTicksPerDay == 2    \* campaign ticks on one calendar day
MaxDays == 1           \* midnights one behaviour of the campaign scheduler passes
MaxOneOffs == 1        \* one-off campaigns created in one behaviour

(* --------------------------- constants --------------------------------- *)
DayLen == 2                 \* clock units per 24 hours
TRIAL_DAYS == 30            \* index.js: Date.now() + 30 * 24 * 60 * 60 * 1000
DEFAULT_INTERVAL == 30      \* businesses.js: intervalMinutes ... ?? 30

Null == "null"
Undefined == "undefined"
DEFAULT_CONTACT == "default-contact"

Tenants == {"a1", "a2", "a3"}
TenantOrder == <<"a1", "a2", "a3">>
ReviewIds == 1..MaxReviews

VARIABLES
  useDb,          \* Boolean(process.env.DATABASE_URL)
  now,            \* the wall clock
  businesses,     \* tenant store: accountId -> record, or Null when absent
  legacyEnv,      \* AUTO_REPLY_ACCOUNT_ID and AUTO_REPLY_LOCATION_ID, see NoLegacy
  allowedRatings, \* AUTO_REPLY_RATINGS, parsed
  autoState,      \* reply-state store: accountId -> repliedReviewIds
  gReviews,       \* platform: accountId -> review ids in platform order
  gHasReply,      \* platform: accountId -> reviews that carry a reply
  gPosts,         \* platform: accountId -> reviewId -> successful replyToReview calls
  runs,           \* live calls of processPendingReviews and /free-reply
  lastTick,       \* what the most recent auto-reply tick did
  resp,           \* the most recent HTTP response
  contacts,       \* Pro contact store: accountId -> stored contacts, in order
  call,           \* the request against the Pro contact store in flight
  optedOut,       \* accountId -> addresses whose contact was marked unsubscribed
  mailedAfterOptOut, \* accountId -> opted-out addresses a campaign mailed since
  today,          \* the local calendar date of new Date()
  proList,        \* the contacts handed to filterContactsWithBirthdayToday
  birthdayContacts, \* what filterContactsWithBirthdayToday returned
  tz,             \* the zone of the server process, see Zones
  birthdaySettings, \* pro_birthday_settings: accountId -> row
  eventCampaigns, \* pro_event_campaigns: <<accountId, eventKey, eventYear>> -> row
  oneOffs,        \* pro_one_off_campaigns: the rows, in id order
  ctick,          \* the campaign tick in flight
  sends,          \* the send calls of the campaign tick in flight
  campaignLog     \* mail delivered today and send calls per campaign

autoVars == <<autoState, gReviews, gHasReply, gPosts, runs, lastTick>>
tenantVars == <<useDb, now, businesses, legacyEnv, allowedRatings, resp>>
proVars == <<contacts, call, optedOut, mailedAfterOptOut>>
bdayVars == <<today, proList, birthdayContacts>>
campVars == <<tz, birthdaySettings, eventCampaigns, oneOffs, ctick, sends, campaignLog>>

(* ------------------------- generic helpers ----------------------------- *)
RECURSIVE SortedSeq(_)
SortedSeq(S) ==
  IF S = {} THEN <<>>
  ELSE LET m == CHOOSE x \in S : \A y \in S : x <= y
       IN <<m>> \o SortedSeq(S \ {m})

Range(s) == {s[k] : k \in 1..Len(s)}

(* ------------------------- tenant records ------------------------------ *)
\* A tenant record carries every field with a typed value; "has" lists the
\* fields that are present (not undefined).  NullT is null for timestamps.
NullT == 0 - 1
Fields == {"locationId", "name", "contact", "autoReplyEnabled", "intervalMinutes",
           "freeReplyUsed", "trialEndsAt", "subscribedAt", "stripeCustomerId", "isPro"}
CoreFields == {"locationId", "name", "contact", "autoReplyEnabled", "intervalMinutes"}

NoBiz ==
  [exists |-> FALSE, has |-> {}, locationId |-> "", name |-> Null, contact |-> Null,
   autoReplyEnabled |-> FALSE, intervalMinutes |-> 0, freeReplyUsed |-> FALSE,
   trialEndsAt |-> NullT, subscribedAt |-> NullT, stripeCustomerId |-> Null,
   isPro |-> FALSE]

\* { ...business, f: v }
With(b, f, v) == [b EXCEPT ![f] = v, !.has = @ \cup {f}]

\* c.f ?? e.f ?? d, for string, boolean and number fields
CoS(c, e, f, d) ==
  IF f \in c.has /\ c[f] # Null THEN c[f]
  ELSE IF f \in e.has /\ e[f] # Null THEN e[f] ELSE d
CoB(c, e, f, d) ==
  IF f \in c.has THEN c[f] ELSE IF f \in e.has THEN e[f] ELSE d
CoN(c, e, f, d) ==
  IF f \in c.has /\ c[f] # NullT THEN c[f]
  ELSE IF f \in e.has /\ e[f] # NullT THEN e[f] ELSE d

\* getBusiness(accountId): all[accountId] || null
getBusiness(a) == businesses[a]

(* --------------------------- tenant store ------------------------------ *)
\* db.js upsertBusinessInDb(config): the row written for config over the
\* existing row e (updated_at is not modelled).
upsertBusinessInDb(config, e) ==
  [exists |-> TRUE, has |-> Fields,
   locationId |-> config.locationId,
   name |-> CoS(config, e, "name", Null),
   contact |-> CoS(config, e, "contact", Null),
   autoReplyEnabled |-> CoB(config, e, "autoReplyEnabled", FALSE),
   intervalMinutes |-> CoN(config, e, "intervalMinutes", DEFAULT_INTERVAL),
   freeReplyUsed |-> CoB(config, e, "freeReplyUsed", FALSE),
   trialEndsAt |-> IF "trialEndsAt" \in config.has THEN config.trialEndsAt
                   ELSE IF "trialEndsAt" \in e.has THEN e.trialEndsAt ELSE NullT,
   subscribedAt |-> IF "subscribedAt" \in config.has THEN config.subscribedAt
                    ELSE IF "subscribedAt" \in e.has THEN e.subscribedAt ELSE NullT,
   stripeCustomerId |-> IF "stripeCustomerId" \in config.has THEN config.stripeCustomerId
                        ELSE IF "stripeCustomerId" \in e.has THEN e.stripeCustomerId ELSE Null,
   isPro |-> IF "isPro" \in config.has THEN config.isPro
             ELSE IF "isPro" \in e.has THEN e.isPro ELSE FALSE]

\* businesses.js upsertBusiness(config): the six-field merge over the
\* existing record e
mergedConfig(config, e) ==
  [NoBiz EXCEPT
     !.exists = TRUE,
     !.has = CoreFields,
     !.locationId = config.locationId,
     !.name = CoS(config, e, "name", Null),
     !.contact = CoS(config, e, "contact", DEFAULT_CONTACT),
     !.autoReplyEnabled = CoB(config, e, "autoReplyEnabled", FALSE),
     !.intervalMinutes = CoN(config, e, "intervalMinutes", DEFAULT_INTERVAL)]

\* businesses.js upsertBusiness(config): the record stored for the account
upsertBusiness(config, e) ==
  IF useDb THEN upsertBusinessInDb(mergedConfig(config, e), e)
  ELSE mergedConfig(config, e)

\* businesses.js getEnabledBusinesses(): the enabled tenants, in store order
isEnabledBusiness(b) ==
  b.exists /\ "autoReplyEnabled" \in b.has /\ b.autoReplyEnabled
  /\ "locationId" \in b.has /\ b.locationId # ""
getEnabledBusinesses ==
  SelectSeq(TenantOrder, LAMBDA a : isEnabledBusiness(businesses[a]))

(* --------------------------- reply loop -------------------------------- *)
\* platform star rating of a review
StarOf(r) == IF r % 3 = 1 THEN "FIVE" ELSE IF r % 3 = 2 THEN "TWO"
             ELSE "STAR_RATING_UNSPECIFIED"

\* auto.js mapStarRatingToNumber: mapping[starRating] || null (0 is null)
mapStarRatingToNumber(star) ==
  CASE star = "ONE" -> 1 [] star = "TWO" -> 2 [] star = "THREE" -> 3
    [] star = "FOUR" -> 4 [] star = "FIVE" -> 5 [] OTHER -> 0

EmptyState == [a \in Tenants |-> {}]

FreeRun ==
  [pc |-> "free", acct |-> Null, origin |-> Null, alreadyReplied |-> {},
   toReply |-> <<>>, i |-> 0, attempted |-> 0, succeeded |-> 0, failed |-> 0,
   details |-> <<>>, all |-> EmptyState, outcome |-> "none", alerted |-> FALSE,
   biz |-> NoBiz, review |-> 0, loaded |-> {}, reviews |-> <<>>,
   after |-> {}, solo |-> TRUE]

RunIds == 1..MaxRuns
AvailableSlots == {r \in RunIds : runs[r].pc = "free"}

Live(r) == runs[r].pc \notin {"free", "done"}

\* a fresh call of processPendingReviews, suspended at its first await
\* (readState).  after and solo are history: the calls that had finished when
\* this one started, and whether no other call for the account overlaps it.
NewRun(a, origin) ==
  [FreeRun EXCEPT !.pc = "readState", !.acct = a, !.origin = origin,
                  !.after = {q \in RunIds : runs[q].pc = "done"},
                  !.solo = ~\E q \in RunIds : Live(q) /\ runs[q].acct = a]

\* the filter without its test of r.reviewReply
isCandidateNoReplyTest(a, replied, r) ==
  /\ r \notin replied
  /\ mapStarRatingToNumber(StarOf(r)) # 0
  /\ mapStarRatingToNumber(StarOf(r)) \in allowedRatings
\* the filter without its test of the allowed ratings
isCandidateAnyRating(a, replied, r) ==
  /\ r \notin gHasReply[a]
  /\ r \notin replied
  /\ mapStarRatingToNumber(StarOf(r)) # 0
\* the reviews processPendingReviews keeps: no reply yet, not in reply-state,
\* rating known and allowed
isCandidate(a, replied, r) ==
  /\ r \notin gHasReply[a]
  /\ r \notin replied
  /\ mapStarRatingToNumber(StarOf(r)) # 0
  /\ mapStarRatingToNumber(StarOf(r)) \in allowedRatings
toReplyOf(a, replied) ==
  SelectSeq(gReviews[a], LAMBDA r : isCandidate(a, replied, r))

\* readState(accountId, locationId)
ReadState(r) ==
  /\ runs[r].pc = "readState"
  /\ runs' = [runs EXCEPT ![r].alreadyReplied = autoState[runs[r].acct],
                          ![r].loaded = autoState[runs[r].acct],
                          ![r].pc = "listReviews"]
  /\ UNCHANGED <<autoState, gReviews, gHasReply, gPosts, lastTick>>
  /\ UNCHANGED <<tenantVars, proVars, bdayVars, campVars>>

\* an entry of results.details: { reviewId, status, message: err?.message }
\* (rating is not modelled; an ok entry has no message)
Detail(reviewId, status, message) ==
  [reviewId |-> reviewId, status |-> status, message |-> message]
\* err.message of what getReplyText and replyToReview throw
GenerateError == "getReplyText failed"
PostError == "replyToReview failed"

\* the loop leaving for writeState after any candidate
AfterCandidateBreak(run) == [run EXCEPT !.pc = "writeState"]
\* where the loop goes after candidate i: the next candidate or writeState
AfterCandidate(run) ==
  IF run.i < Len(run.toReply)
  THEN [run EXCEPT !.i = @ + 1, !.pc = "getReplyText"]
  ELSE [run EXCEPT !.pc = "writeState"]

\* mutant: the scheduler's .catch is missing, a thrown error raises no alert
FinishNoCatch(run, outcome) ==
  [run EXCEPT !.pc = "done", !.outcome = outcome,
              !.alerted = (run.origin = "tick" /\ outcome # "threw" /\ run.failed > 0),
              !.alreadyReplied = {}, !.toReply = <<>>, !.i = 0,
              !.all = EmptyState]

\* how a call ends: the scheduler's .then/.catch alert for tick runs
Finish(run, outcome) ==
  [run EXCEPT !.pc = "done", !.outcome = outcome,
              !.alerted = (run.origin = "tick"
                           /\ (outcome = "threw" \/ run.failed > 0)),
              !.alreadyReplied = {}, !.toReply = <<>>, !.i = 0,
              !.all = EmptyState]

\* listReviews resolves: filter into toReply and enter the loop
ListReviewsOk(r) ==
  /\ runs[r].pc = "listReviews"
  /\ LET run == runs[r]
         tr == toReplyOf(run.acct, run.alreadyReplied)
     IN runs' = [runs EXCEPT ![r] =
                   IF tr = <<>>
                   THEN [run EXCEPT !.reviews = gReviews[run.acct], !.toReply = tr,
                                    !.pc = "writeState"]
                   ELSE [run EXCEPT !.reviews = gReviews[run.acct], !.toReply = tr,
                                    !.i = 1, !.pc = "getReplyText"]]
  /\ UNCHANGED <<autoState, gReviews, gHasReply, gPosts, lastTick>>
  /\ UNCHANGED <<tenantVars, proVars, bdayVars, campVars>>

\* listReviews rejects: processPendingReviews throws
ListReviewsFail(r) ==
  /\ runs[r].pc = "listReviews"
  /\ runs' = [runs EXCEPT ![r] = Finish(runs[r], "threw")]
  /\ UNCHANGED <<autoState, gReviews, gHasReply, gPosts, lastTick>>
  /\ UNCHANGED <<tenantVars, proVars, bdayVars, campVars>>

\* getReplyText resolves for candidate i
GetReplyTextOk(r) ==
  /\ runs[r].pc = "getReplyText"
  /\ runs' = [runs EXCEPT ![r].attempted = @ + 1, ![r].pc = "replyToReview"]
  /\ UNCHANGED <<autoState, gReviews, gHasReply, gPosts, lastTick>>
  /\ UNCHANGED <<tenantVars, proVars, bdayVars, campVars>>

\* the catch of the loop taking a failed review for a replied one
GetReplyTextFailMarked(r) ==
  /\ runs[r].pc = "getReplyText"
  /\ LET run == runs[r]
         rid == run.toReply[run.i]
         rec == [run EXCEPT !.attempted = @ + 1, !.failed = @ + 1,
                   !.alreadyReplied = @ \cup {rid},
                   !.details = Append(@, Detail(rid, "error", GenerateError))]
     IN runs' = [runs EXCEPT ![r] = AfterCandidate(rec)]
  /\ UNCHANGED <<autoState, gReviews, gHasReply, gPosts, lastTick>>
  /\ UNCHANGED <<tenantVars, proVars, bdayVars, campVars>>

\* getReplyText throws for candidate i: the catch records the failure
GetReplyTextFail(r) ==
  /\ runs[r].pc = "getReplyText"
  /\ LET run == runs[r]
         rid == run.toReply[run.i]
         rec == [run EXCEPT !.attempted = @ + 1, !.failed = @ + 1,
                   !.details = Append(@, Detail(rid, "error", GenerateError))]
     IN runs' = [runs EXCEPT ![r] = AfterCandidate(rec)]
  /\ UNCHANGED <<autoState, gReviews, gHasReply, gPosts, lastTick>>
  /\ UNCHANGED <<tenantVars, proVars, bdayVars, campVars>>

\* replyToReview resolves for candidate i
ReplyToReviewOk(r) ==
  /\ runs[r].pc = "replyToReview"
  /\ LET run == runs[r]
         a == run.acct
         rid == run.toReply[run.i]
         rec == [run EXCEPT !.alreadyReplied = @ \cup {rid}, !.succeeded = @ + 1,
                   !.details = Append(@, Detail(rid, "ok", Undefined))]
     IN /\ runs' = [runs EXCEPT ![r] = AfterCandidate(rec)]
        /\ gPosts' = [gPosts EXCEPT ![a][rid] = @ + 1]
        /\ gHasReply' = [gHasReply EXCEPT ![a] = @ \cup {rid}]
  /\ UNCHANGED <<autoState, gReviews, lastTick>>
  /\ UNCHANGED <<tenantVars, proVars, bdayVars, campVars>>

\* the catch of the loop recording the failure without counting it
ReplyToReviewFailUncounted(r) ==
  /\ runs[r].pc = "replyToReview"
  /\ LET run == runs[r]
         rid == run.toReply[run.i]
         rec == [run EXCEPT
                   !.details = Append(@, Detail(rid, "error", PostError))]
     IN runs' = [runs EXCEPT ![r] = AfterCandidate(rec)]
  /\ UNCHANGED <<autoState, gReviews, gHasReply, gPosts, lastTick>>
  /\ UNCHANGED <<tenantVars, proVars, bdayVars, campVars>>

\* replyToReview throws for candidate i
ReplyToReviewFail(r) ==
  /\ runs[r].pc = "replyToReview"
  /\ LET run == runs[r]
         rid == run.toReply[run.i]
         rec == [run EXCEPT !.failed = @ + 1,
                   !.details = Append(@, Detail(rid, "error", PostError))]
     IN runs' = [runs EXCEPT ![r] = AfterCandidate(rec)]
  /\ UNCHANGED <<autoState, gReviews, gHasReply, gPosts, lastTick>>
  /\ UNCHANGED <<tenantVars, proVars, bdayVars, campVars>>

\* mutant: line 123 forgotten, the set loaded by readState is written back
stateToWriteStale(run) == run.loaded

\* auto.js line 123: state.repliedReviewIds = Array.from(alreadyReplied)
stateToWrite(run) == run.alreadyReplied

\* what follows writeState: processPendingReviews returns its summary;
\* /free-reply goes on to upsertBusiness
AfterWrite(run) ==
  IF run.origin = "free"
  THEN [run EXCEPT !.pc = "frUpsert", !.alreadyReplied = {}, !.all = EmptyState]
  ELSE Finish(run, "returned")

\* writeState, database mode: db.setAutoState upserts the row; the call returns
WriteStateDb(r) ==
  /\ runs[r].pc = "writeState"
  /\ useDb
  /\ autoState' = [autoState EXCEPT ![runs[r].acct] = stateToWrite(runs[r])]
  /\ runs' = [runs EXCEPT ![r] = AfterWrite(runs[r])]
  /\ UNCHANGED <<gReviews, gHasReply, gPosts, lastTick>>
  /\ UNCHANGED <<tenantVars, proVars, bdayVars, campVars>>

\* writeState, file mode: readAllState() reads the whole file
WriteStateReadAll(r) ==
  /\ runs[r].pc = "writeState"
  /\ ~useDb
  /\ runs' = [runs EXCEPT ![r].all = autoState, ![r].pc = "writeFile"]
  /\ UNCHANGED <<autoState, gReviews, gHasReply, gPosts, lastTick>>
  /\ UNCHANGED <<tenantVars, proVars, bdayVars, campVars>>

\* writeState, file mode: all[key] = state; fs.writeFile(all); the call returns
WriteStateWriteFile(r) ==
  /\ runs[r].pc = "writeFile"
  /\ autoState' = [runs[r].all EXCEPT ![runs[r].acct] = stateToWrite(runs[r])]
  /\ runs' = [runs EXCEPT ![r] = AfterWrite(runs[r])]
  /\ UNCHANGED <<gReviews, gHasReply, gPosts, lastTick>>
  /\ UNCHANGED <<tenantVars, proVars, bdayVars, campVars>>

\* readState rejects: db.getAutoState fails (file mode: readAllState catches
\* every error and yields {}); processPendingReviews throws
ReadStateFail(r) ==
  /\ runs[r].pc = "readState"
  /\ useDb
  /\ runs' = [runs EXCEPT ![r] = Finish(runs[r], "threw")]
  /\ UNCHANGED <<autoState, gReviews, gHasReply, gPosts, lastTick>>
  /\ UNCHANGED <<tenantVars, proVars, bdayVars, campVars>>

\* writeState rejects: db.setAutoState or fs.writeFile fails;
\* processPendingReviews throws after its loop
WriteStateFail(r) ==
  /\ runs[r].pc = (IF useDb THEN "writeState" ELSE "writeFile")
  /\ runs[r].origin # "free"
  /\ runs' = [runs EXCEPT ![r] = Finish(runs[r], "threw")]
  /\ UNCHANGED <<autoState, gReviews, gHasReply, gPosts, lastTick>>
  /\ UNCHANGED <<tenantVars, proVars, bdayVars, campVars>>

\* the process dies while calls are in flight: what the calls hold in memory
\* (alreadyReplied, results) is gone, the platform and the stored reply-state
\* stay; a file that was being written may be left unparsable, which
\* readAllState reads as {}
Crashed(run) == [run EXCEPT !.pc = "done", !.outcome = "crashed"]
Crash ==
  /\ \E r \in RunIds : Live(r)
  /\ runs' = [r \in RunIds |-> IF Live(r) THEN Crashed(runs[r]) ELSE runs[r]]
  /\ \/ autoState' = autoState
     \/ /\ \E r \in RunIds : runs[r].pc = "writeFile"
        /\ autoState' = EmptyState
  /\ UNCHANGED <<gReviews, gHasReply, gPosts, lastTick>>
  /\ UNCHANGED <<tenantVars, proVars, bdayVars, campVars>>

(* --------------------------- scheduler --------------------------------- *)
\* the runs after launching processPendingReviews for each account of bs,
\* each in the next available slot
Launch(bs, origin) ==
  LET slots == SortedSeq(AvailableSlots)
  IN [r \in RunIds |->
        IF \E k \in 1..Len(bs) : slots[k] = r
        THEN NewRun(bs[CHOOSE k \in 1..Len(bs) : slots[k] = r], origin)
        ELSE IF Live(r) /\ runs[r].acct \in Range(bs)
        THEN [runs[r] EXCEPT !.solo = FALSE]
        ELSE runs[r]]

\* process.env.AUTO_REPLY_ACCOUNT_ID and AUTO_REPLY_LOCATION_ID; Null is unset
\* (or empty)
Legacy(accountId, locationId) == [accountId |-> accountId, locationId |-> locationId]
NoLegacy == Legacy(Null, Null)

\* the accounts one tick processes: the enabled tenants, else the legacy pair
tickBusinesses ==
  LET enabled == getEnabledBusinesses
  IN IF enabled = <<>> /\ legacyEnv.accountId # Null /\ legacyEnv.locationId # Null
     THEN <<legacyEnv.accountId>> ELSE enabled

\* no tick has fired yet; rejected: the promise of the timer callback was
\* rejected, which nothing handles
NoTick == [fired |-> FALSE, processed |-> {}, rejected |-> FALSE]

\* auto.js startScheduler: one firing of the setInterval callback
Tick ==
  /\ Len(tickBusinesses) <= Cardinality(AvailableSlots)
  /\ runs' = Launch(tickBusinesses, "tick")
  /\ lastTick' = [fired |-> TRUE, processed |-> Range(tickBusinesses), rejected |-> FALSE]
  /\ UNCHANGED <<autoState, gReviews, gHasReply, gPosts>>
  /\ UNCHANGED <<tenantVars, proVars, bdayVars, campVars>>

\* auto.js startScheduler: a firing of the callback in which
\* await getEnabledBusinesses() rejects (the query of the businesses table
\* fails); the callback has no try/catch, so its promise is rejected
TickEnumerateFail ==
  /\ useDb
  /\ lastTick' = [fired |-> TRUE, processed |-> {}, rejected |-> TRUE]
  /\ UNCHANGED <<autoState, gReviews, gHasReply, gPosts, runs>>
  /\ UNCHANGED <<tenantVars, proVars, bdayVars, campVars>>

\* index.js POST /auto/process with body accountId a
ManualProcess(a) ==
  /\ AvailableSlots # {}
  /\ runs' = Launch(<<a>>, "manual")
  /\ UNCHANGED <<autoState, gReviews, gHasReply, gPosts, lastTick>>
  /\ UNCHANGED <<tenantVars, proVars, bdayVars, campVars>>

(* --------------------------- HTTP responses ---------------------------- *)
\* request bodies of PATCH /businesses/:accountId
EmptyBody == [has |-> {}, autoReplyEnabled |-> FALSE, contact |-> Null,
              intervalMinutes |-> 0, isPro |-> FALSE]

\* res.status(status).json(...) of handler op for account a
Response(op, a, status, code) ==
  [op |-> op, acct |-> a, status |-> status, code |-> code]
NoResp == Response(Null, Null, 0, Null)

(* --------------------------- /free-reply ------------------------------- *)
\* index.js POST /free-reply: getBusiness and the three early returns
FreeReplyStart(a) ==
  /\ AvailableSlots # {}
  /\ LET business == getBusiness(a)
     IN IF ~business.exists
        THEN /\ resp' = Response("free-reply", a, 404, Null)
             /\ UNCHANGED runs
        ELSE IF "freeReplyUsed" \in business.has /\ business.freeReplyUsed
        THEN /\ resp' = Response("free-reply", a, 400, "USED")
             /\ UNCHANGED runs
        ELSE IF ~("locationId" \in business.has /\ business.locationId # "")
        THEN /\ resp' = Response("free-reply", a, 400, "NO_LOCATION")
             /\ UNCHANGED runs
        ELSE /\ runs' = [Launch(<<a>>, "free") EXCEPT
                           ![SortedSeq(AvailableSlots)[1]].pc = "frList",
                           ![SortedSeq(AvailableSlots)[1]].biz = business]
             /\ UNCHANGED resp
  /\ UNCHANGED <<autoState, gReviews, gHasReply, gPosts, lastTick>>
  /\ UNCHANGED <<proVars, bdayVars, campVars, useDb, now, businesses, legacyEnv, allowedRatings>>

\* the first review without a reply, in platform order (0 when none)
firstUnreplied(a) ==
  LET un == SelectSeq(gReviews[a], LAMBDA r : r \notin gHasReply[a])
  IN IF un = <<>> THEN 0 ELSE un[1]

\* /free-reply: listReviews resolves; reviews.find(unreplied)
FrListOk(r) ==
  /\ runs[r].pc = "frList"
  /\ LET a == runs[r].acct
         rid == firstUnreplied(a)
     IN IF rid = 0
        THEN /\ runs' = [runs EXCEPT ![r] = Finish(runs[r], "returned")]
             /\ resp' = Response("free-reply", a, 400, "NO_REVIEWS")
        ELSE /\ runs' = [runs EXCEPT ![r].review = rid, ![r].pc = "frGetReplyText"]
             /\ UNCHANGED resp
  /\ UNCHANGED <<autoState, gReviews, gHasReply, gPosts, lastTick>>
  /\ UNCHANGED <<proVars, bdayVars, campVars, useDb, now, businesses, legacyEnv, allowedRatings>>

\* /free-reply: listReviews, getReplyText or replyToReview throws: next(err)
FrFail(r) ==
  /\ runs[r].pc \in {"frList", "frGetReplyText", "frReplyToReview"}
  /\ runs' = [runs EXCEPT ![r] = Finish(runs[r], "threw")]
  /\ resp' = Response("free-reply", runs[r].acct, 500, Null)
  /\ UNCHANGED <<autoState, gReviews, gHasReply, gPosts, lastTick>>
  /\ UNCHANGED <<proVars, bdayVars, campVars, useDb, now, businesses, legacyEnv, allowedRatings>>

\* /free-reply: getReplyText resolves
FrGetReplyTextOk(r) ==
  /\ runs[r].pc = "frGetReplyText"
  /\ runs' = [runs EXCEPT ![r].pc = "frReplyToReview"]
  /\ UNCHANGED <<autoState, gReviews, gHasReply, gPosts, lastTick>>
  /\ UNCHANGED <<tenantVars, proVars, bdayVars, campVars>>

\* /free-reply: replyToReview resolves
FrReplyToReviewOk(r) ==
  /\ runs[r].pc = "frReplyToReview"
  /\ LET a == runs[r].acct
         rid == runs[r].review
     IN /\ gPosts' = [gPosts EXCEPT ![a][rid] = @ + 1]
        /\ gHasReply' = [gHasReply EXCEPT ![a] = @ \cup {rid}]
  /\ runs' = [runs EXCEPT ![r].succeeded = @ + 1, ![r].pc = "frAddReplied"]
  /\ UNCHANGED <<autoState, gReviews, lastTick>>
  /\ UNCHANGED <<tenantVars, proVars, bdayVars, campVars>>

\* auto.js addRepliedReviewId: readState, then push and writeState when new
AddRepliedReviewIdRead(r) ==
  /\ runs[r].pc = "frAddReplied"
  /\ LET state == autoState[runs[r].acct]
     IN runs' = [runs EXCEPT ![r] =
                   IF runs[r].review \in state
                   THEN [@ EXCEPT !.pc = "frUpsert"]
                   ELSE [@ EXCEPT !.alreadyReplied = state \cup {runs[r].review},
                                  !.pc = "writeState"]]
  /\ UNCHANGED <<autoState, gReviews, gHasReply, gPosts, lastTick>>
  /\ UNCHANGED <<tenantVars, proVars, bdayVars, campVars>>

\* /free-reply: upsertBusiness({ ...business, freeReplyUsed: true }); res.json
FrUpsert(r) ==
  /\ runs[r].pc = "frUpsert"
  /\ LET a == runs[r].acct
     IN businesses' = [businesses EXCEPT ![a] =
          upsertBusiness(With(runs[r].biz, "freeReplyUsed", TRUE), businesses[a])]
  /\ runs' = [runs EXCEPT ![r] = [Finish(runs[r], "returned") EXCEPT !.biz = NoBiz]]
  /\ resp' = Response("free-reply", runs[r].acct, 200, Null)
  /\ UNCHANGED <<autoState, gReviews, gHasReply, gPosts, lastTick>>
  /\ UNCHANGED <<proVars, bdayVars, campVars, useDb, now, legacyEnv, allowedRatings>>

(* --------------------------- platform ---------------------------------- *)
\* a customer posts a new review on the location
NewReview(a) ==
  /\ \E rid \in ReviewIds \ Range(gReviews[a]) :
       gReviews' = [gReviews EXCEPT ![a] = Append(@, rid)]
  /\ UNCHANGED <<autoState, gHasReply, gPosts, runs, lastTick>>
  /\ UNCHANGED <<tenantVars, proVars, bdayVars, campVars>>

(* -------------------- specification: auto-reply ------------------------ *)
(* ------------------------ tenant endpoints ----------------------------- *)
\* index.js:1112: existing.trialEndsAt && new Date(existing.trialEndsAt) < new Date()
\* mutant: the comparison is reversed
trialEndedReversed(b) ==
  "trialEndsAt" \in b.has /\ b.trialEndsAt # NullT /\ b.trialEndsAt > now

trialEnded(b) ==
  "trialEndsAt" \in b.has /\ b.trialEndsAt # NullT /\ b.trialEndsAt < now

\* !existing.subscribedAt
notSubscribed(b) == ~("subscribedAt" \in b.has /\ b.subscribedAt # NullT)

PatchBodies ==
  { [EmptyBody EXCEPT !.has = {"autoReplyEnabled"}, !.autoReplyEnabled = TRUE],
    [EmptyBody EXCEPT !.has = {"autoReplyEnabled"}, !.autoReplyEnabled = FALSE],
    [EmptyBody EXCEPT !.has = {"autoReplyEnabled", "contact", "intervalMinutes", "isPro"},
                      !.autoReplyEnabled = TRUE, !.contact = "c1",
                      !.intervalMinutes = 15, !.isPro = TRUE] }

\* { ...existing, ...(each field the body carries) }
patchConfig(existing, body) ==
  [existing EXCEPT
     !.has = @ \cup body.has,
     !.autoReplyEnabled = IF "autoReplyEnabled" \in body.has THEN body.autoReplyEnabled ELSE @,
     !.contact = IF "contact" \in body.has THEN body.contact ELSE @,
     !.intervalMinutes = IF "intervalMinutes" \in body.has THEN body.intervalMinutes ELSE @,
     !.isPro = IF "isPro" \in body.has THEN body.isPro ELSE @]

\* index.js PATCH /businesses/:accountId
Patch(a, body) ==
  /\ LET existing == getBusiness(a)
     IN IF ~existing.exists
        THEN /\ resp' = Response("patch", a, 404, Null)
             /\ UNCHANGED businesses
        ELSE IF /\ "autoReplyEnabled" \in body.has /\ body.autoReplyEnabled
                /\ trialEnded(existing) /\ notSubscribed(existing)
        THEN /\ resp' = Response("patch", a, 403, "TRIAL_ENDED")
             /\ UNCHANGED businesses
        ELSE /\ businesses' = [businesses EXCEPT ![a] =
                                 upsertBusiness(patchConfig(existing, body), businesses[a])]
             /\ resp' = Response("patch", a, 200, Null)
  /\ UNCHANGED <<proVars, bdayVars, campVars, useDb, now, legacyEnv, allowedRatings>>
  /\ UNCHANGED <<autoVars, bdayVars, campVars>>

\* index.js GET /auth/google/callback: upsertBusiness({ accountId, locationId, name })
Connect(a) ==
  /\ businesses' = [businesses EXCEPT ![a] =
        upsertBusiness([NoBiz EXCEPT !.has = {"locationId", "name"},
                                     !.locationId = "loc", !.name = "n"],
                       businesses[a])]
  /\ UNCHANGED <<proVars, bdayVars, campVars, useDb, now, legacyEnv, allowedRatings, resp>>
  /\ UNCHANGED <<autoVars, bdayVars, campVars>>

\* Math.ceil((end - new Date()) / (24 * 60 * 60 * 1000))
CeilDiv(x, d) == IF x >= 0 THEN (x + d - 1) \div d ELSE 0 - ((0 - x) \div d)
trialDaysLeftOf(end) == CeilDiv(end - now, DayLen)

\* index.js GET /connected: trialEndsAt != null && trialDaysLeft != null &&
\* trialDaysLeft < 0 && !subscribedAt
trialEndedNoSubscription(business) ==
  /\ business.exists
  /\ "trialEndsAt" \in business.has /\ business.trialEndsAt # NullT
  /\ trialDaysLeftOf(business.trialEndsAt) < 0
  /\ notSubscribed(business)

\* index.js GET /connected?accountId=a: trial backfill, then force-disable
ConnectedPage(a) ==
  /\ LET stored == getBusiness(a)
         backfill == stored.exists
                     /\ ~("trialEndsAt" \in stored.has /\ stored.trialEndsAt # NullT)
         endsAt == now + TRIAL_DAYS * DayLen
         afterBackfill ==
           IF backfill
           THEN [businesses EXCEPT ![a] =
                   upsertBusiness(With(stored, "trialEndsAt", endsAt), businesses[a])]
           ELSE businesses
         business == IF backfill THEN With(stored, "trialEndsAt", endsAt) ELSE stored
     IN IF trialEndedNoSubscription(business)
           /\ "autoReplyEnabled" \in business.has /\ business.autoReplyEnabled
        THEN businesses' = [afterBackfill EXCEPT ![a] =
               upsertBusiness(With(business, "autoReplyEnabled", FALSE), afterBackfill[a])]
        ELSE businesses' = afterBackfill
  /\ UNCHANGED <<proVars, bdayVars, campVars, useDb, now, legacyEnv, allowedRatings, resp>>
  /\ UNCHANGED <<autoVars, bdayVars, campVars>>

\* db.js getAccountIdByStripeCustomerId: the account with this customer id
Customers == {"cus1"}
getAccountIdByStripeCustomerId(c) ==
  LET hits == {a \in Tenants : businesses[a].exists
                               /\ "stripeCustomerId" \in businesses[a].has
                               /\ businesses[a].stripeCustomerId = c}
  IN IF hits = {} THEN Null ELSE CHOOSE a \in hits : TRUE

\* index.js stripeWebhook, checkout.session.completed for account a
WebhookCheckoutCompleted(a, c, isPro) ==
  /\ LET business == getBusiness(a)
     IN IF business.exists
        THEN businesses' = [businesses EXCEPT ![a] =
               upsertBusiness(With(With(With(business, "subscribedAt", now),
                                        "stripeCustomerId", c), "isPro", isPro),
                              businesses[a])]
        ELSE UNCHANGED businesses
  /\ UNCHANGED <<proVars, bdayVars, campVars, useDb, now, legacyEnv, allowedRatings, resp>>
  /\ UNCHANGED <<autoVars, bdayVars, campVars>>

\* index.js applySubscriptionState(accountId, subscribedAt, isPro)
applySubscriptionState(a, subscribedAt, isPro) ==
  IF a # Null /\ getBusiness(a).exists
  THEN [businesses EXCEPT ![a] =
          upsertBusiness(With(With(getBusiness(a), "subscribedAt", subscribedAt),
                              "isPro", isPro), businesses[a])]
  ELSE businesses

\* index.js stripeWebhook, customer.subscription.updated for customer c
WebhookSubscriptionUpdated(c, active, isPro) ==
  /\ businesses' = applySubscriptionState(getAccountIdByStripeCustomerId(c),
                                          IF active THEN now ELSE NullT, isPro)
  /\ UNCHANGED <<proVars, bdayVars, campVars, useDb, now, legacyEnv, allowedRatings, resp>>
  /\ UNCHANGED <<autoVars, bdayVars, campVars>>

\* index.js stripeWebhook, customer.subscription.deleted for customer c
WebhookSubscriptionDeleted(c) ==
  /\ businesses' = applySubscriptionState(getAccountIdByStripeCustomerId(c), NullT, FALSE)
  /\ UNCHANGED <<proVars, bdayVars, campVars, useDb, now, legacyEnv, allowedRatings, resp>>
  /\ UNCHANGED <<autoVars, bdayVars, campVars>>

\* time passes
AdvanceClock ==
  /\ now < MaxTime
  /\ now' = now + 1
  /\ UNCHANGED <<proVars, bdayVars, campVars, useDb, businesses, legacyEnv, allowedRatings, resp>>
  /\ UNCHANGED <<autoVars, bdayVars, campVars>>

(* ------------------------------ strings -------------------------------- *)
\* A string is the sequence of its characters.
toLowerChar(c) == IF c = "A" THEN "a" ELSE IF c = "B" THEN "b" ELSE c

toLowerCase(s) == [k \in 1..Len(s) |-> toLowerChar(s[k])]

RECURSIVE trimStart(_)
trimStart(s) == IF s # <<>> /\ Head(s) = " " THEN trimStart(Tail(s)) ELSE s

RECURSIVE trimEnd(_)
trimEnd(s) ==
  IF s # <<>> /\ s[Len(s)] = " " THEN trimEnd(SubSeq(s, 1, Len(s) - 1)) ELSE s

trim(s) == trimEnd(trimStart(s))

(* --------------------------- Pro contact store ------------------------- *)
NullE == <<"null">>     \* SQL NULL in the email column
EmptyContacts == [a \in Tenants |-> <<>>]
Contact(email, first_name, unsubscribed_at) ==
  [email |-> email, first_name |-> first_name, unsubscribed_at |-> unsubscribed_at]

\* the rows an uploaded CSV file can carry: an email cell and a first_name cell
Row(email, first_name) == [email |-> email, first_name |-> first_name]
UploadRows ==
  {Row(<<"a">>, <<"x">>), Row(<<"A", " ">>, <<"y">>), Row(<<"b">>, <<"x">>),
   Row(<<>>, <<"z">>)}
UploadLists == UNION {[1..k -> UploadRows] : k \in 0..MaxRows}
UnsubscribeEmails == {<<"A">>, <<"b">>}

\* (r.email || "").trim() and its lower-cased form, the dedupe key
rawEmail(r) == trim(r.email)
emailLower(r) == toLowerCase(rawEmail(r))

\* (r.first_name || r.firstName || "").trim()
firstName(r) == trim(r.first_name)

\* new Map(): keys in order of first insertion, the last value set wins
firstOfKey(rows) ==
  {i \in 1..Len(rows) : /\ emailLower(rows[i]) # <<>>
                        /\ \A j \in 1..(i - 1) : emailLower(rows[j]) # emailLower(rows[i])}
lastOfKey(rows, k) ==
  CHOOSE i \in 1..Len(rows) : /\ emailLower(rows[i]) = k
                              /\ \A j \in (i + 1)..Len(rows) : emailLower(rows[j]) # k
\* withEmail when the first row of an email is kept instead of the last
withEmailFirstWins(rows) ==
  LET s == SortedSeq(firstOfKey(rows))
  IN [n \in 1..Len(s) |-> rows[s[n]]]
withEmail(rows) ==
  LET s == SortedSeq(firstOfKey(rows))
  IN [n \in 1..Len(s) |-> rows[lastOfKey(rows, emailLower(rows[s[n]]))]]
withoutEmail(rows) ==
  LET noEmail(r) == emailLower(r) = <<>>
  IN SelectSeq(rows, noEmail)

\* proContacts.js replaceProContacts, file mode: unsubscribedSet
fileUnsubscribedSetNoLower(existing) ==
  {c.email : c \in {x \in Range(existing) : x.unsubscribed_at # NullT /\ x.email # <<>>}}

fileUnsubscribedSet(existing) ==
  {toLowerCase(c.email) :
     c \in {x \in Range(existing) : x.unsubscribed_at # NullT /\ x.email # <<>>}}

\* proContacts.js replaceProContacts, file mode: the list written for the account
fileReplace(existing, rows) ==
  LET unsubscribedSet == fileUnsubscribedSet(existing)
      we == withEmail(rows)
      wo == withoutEmail(rows)
  IN [n \in 1..Len(we) |->
        Contact(rawEmail(we[n]), firstName(we[n]),
                IF emailLower(we[n]) \in unsubscribedSet THEN now ELSE NullT)]
     \o [n \in 1..Len(wo) |-> Contact(<<>>, firstName(wo[n]), NullT)]

\* proContacts.js setProContactUnsubscribed, file mode: the first match only
fileUnsubscribe(list, email) ==
  LET key == toLowerCase(trim(email))
      hits == {i \in 1..Len(list) : toLowerCase(list[i].email) = key}
  IN IF hits = {} THEN list
     ELSE LET first == CHOOSE i \in hits : \A j \in hits : i <= j
          IN [list EXCEPT ![first].unsubscribed_at = now]

\* db.js getProContactUnsubscribedEmails
getProContactUnsubscribedEmails(a) ==
  {toLowerCase(c.email) :
     c \in {x \in Range(contacts[a]) : x.email # NullE /\ x.unsubscribed_at # NullT}}

\* db.js replaceProContacts: the rows of the INSERT statements, in order
dbRows(rows, unsubscribedSet) ==
  LET we == withEmail(rows)
      wo == withoutEmail(rows)
  IN [n \in 1..Len(we) |->
        LET email == toLowerCase(trim(rawEmail(we[n])))
        IN Contact(email, firstName(we[n]),
                   IF email \in unsubscribedSet THEN now ELSE NullT)]
     \o [n \in 1..Len(wo) |-> Contact(NullE, firstName(wo[n]), NullT)]

\* db.js setProContactUnsubscribed: UPDATE ... WHERE LOWER(TRIM(email)) = LOWER(TRIM($2))
dbUnsubscribe(list, email) ==
  [i \in 1..Len(list) |->
     IF list[i].email # NullE
        /\ toLowerCase(trim(list[i].email)) = toLowerCase(trim(email))
     THEN [list[i] EXCEPT !.unsubscribed_at = now] ELSE list[i]]

\* db.js getProContactsForSending without its WHERE clause
getProContactsForSendingAll(a) == contacts[a]
\* db.js getProContactsForSending
getProContactsForSending(a) ==
  LET sendable(c) == c.email # NullE /\ c.unsubscribed_at = NullT
  IN SelectSeq(contacts[a], sendable)

\* the address a stored contact stands for, <<>> when it has none
StoredKey(c) ==
  IF c.email = NullE \/ c.email = <<>> THEN <<>> ELSE toLowerCase(trim(c.email))
\* the addresses of a list whose stored contact has unsubscribed_at set / unset
UnsubscribedKeys(list) ==
  {StoredKey(c) : c \in {x \in Range(list) : x.unsubscribed_at # NullT}} \ {<<>>}
SubscribedKeys(list) ==
  {StoredKey(c) : c \in {x \in Range(list) : x.unsubscribed_at = NullT}} \ {<<>>}

(* ---------------- requests against the Pro contact store --------------- *)
\* The request in flight (the store is driven by one request at a time): its
\* position, its arguments, what it read, and what it stored (kept: addresses stored with unsubscribed_at set; lost: without).
FreeCall ==
  [pc |-> "free", op |-> Null, acct |-> Null, rows |-> <<>>, email |-> <<>>,
   unsubscribedSet |-> {}, all |-> EmptyContacts, pending |-> <<>>,
   pre |-> {}]
\* business?.isPro taken for true for every stored tenant
isProBusinessAnyPlan(b) == b.exists
\* business?.isPro
isProBusiness(b) == b.exists /\ "isPro" \in b.has /\ b.isPro

\* index.js POST /pro/contacts/upload with the parsed rows of the CSV file
UploadContacts(a, rows) ==
  /\ call.pc = "free"
  /\ LET business == getBusiness(a)
     IN IF ~business.exists
        THEN resp' = Response("upload", a, 404, Null) /\ UNCHANGED call
        ELSE IF ~isProBusiness(business)
        THEN resp' = Response("upload", a, 403, Null) /\ UNCHANGED call
        ELSE /\ call' = [FreeCall EXCEPT !.pc = IF useDb THEN "select" ELSE "readAll",
                                             !.op = "upload", !.acct = a, !.rows = rows]
             /\ UNCHANGED resp
  /\ UNCHANGED <<contacts, optedOut, mailedAfterOptOut>>
  /\ UNCHANGED <<useDb, now, businesses, legacyEnv, allowedRatings>>
  /\ UNCHANGED <<autoVars, bdayVars, campVars>>

\* db.js replaceProContacts: await getProContactUnsubscribedEmails(accountId)
DbSelect ==
  /\ call.pc = "select"
  /\ call' = [call EXCEPT
                 !.unsubscribedSet = getProContactUnsubscribedEmails(call.acct),
                 !.pre = UnsubscribedKeys(contacts[call.acct]),
                 !.pc = "delete"]
  /\ UNCHANGED <<contacts, optedOut, mailedAfterOptOut>>
  /\ UNCHANGED tenantVars
  /\ UNCHANGED <<autoVars, bdayVars, campVars>>

\* db.js replaceProContacts: DELETE FROM pro_contacts; if (!rows.length) return
DbDelete ==
  /\ call.pc = "delete"
  /\ contacts' = [contacts EXCEPT ![call.acct] = <<>>]
  /\ call' = [call EXCEPT
                 !.pending = dbRows(call.rows, call.unsubscribedSet),
                 !.pc = IF call.rows = <<>> THEN "respond" ELSE "insert"]
  /\ UNCHANGED <<optedOut, mailedAfterOptOut>>
  /\ UNCHANGED tenantVars
  /\ UNCHANGED <<autoVars, bdayVars, campVars>>

\* db.js replaceProContacts: one awaited INSERT
DbInsert ==
  /\ call.pc = "insert"
  /\ LET row == Head(call.pending)
     IN /\ contacts' = [contacts EXCEPT ![call.acct] = Append(@, row)]
        /\ call' = [call EXCEPT
                       !.pending = Tail(@),
                       !.pc = IF Len(call.pending) = 1 THEN "respond" ELSE "insert"]
  /\ UNCHANGED <<optedOut, mailedAfterOptOut>>
  /\ UNCHANGED tenantVars
  /\ UNCHANGED <<autoVars, bdayVars, campVars>>

(* --------------------------- unsubscribe tokens ------------------------ *)
\* A token is written as the text Buffer.from(token, "base64url") decodes it
\* to.  The account ids as text, and the tenant an account id names.
AccountText(a) ==
  CASE a = "a1" -> <<"1">> [] a = "a2" -> <<"2">> [] a = "a3" -> <<"3">>
    [] OTHER -> <<"9">>
AccountOf(text) ==
  IF \E a \in Tenants : AccountText(a) = text
  THEN CHOOSE a \in Tenants : AccountText(a) = text ELSE Null

\* s.splitAtColons(":")
RECURSIVE splitAtColons(_)
splitAtColons(s) ==
  IF \A k \in 1..Len(s) : s[k] # ":" THEN <<s>>
  ELSE LET k == CHOOSE i \in 1..Len(s) : s[i] = ":" /\ \A j \in 1..(i - 1) : s[j] # ":"
       IN <<SubSeq(s, 1, k - 1)>> \o splitAtColons(SubSeq(s, k + 1, Len(s)))

\* crypto.createHmac("sha256", UNSUBSCRIBE_SECRET).update(payload).digest("base64url"):
\* a text without ":" that differs for different payloads and that only the
\* holder of the secret can compute
hmac(payload) ==
  <<"#">> \o [k \in 1..Len(payload) |-> IF payload[k] = ":" THEN "|" ELSE payload[k]]

\* campaignEmail.js createUnsubscribeToken
createUnsubscribeToken(accountId, email) ==
  LET payload == accountId \o <<":">> \o toLowerCase(trim(email))
  IN payload \o <<":">> \o hmac(payload)

NoToken == [ok |-> FALSE, accountId |-> <<>>, email |-> <<>>]
\* the first three elements of decoded.split(":"), <<>> for undefined
tokenParts(token) ==
  LET parts == splitAtColons(token)
  IN [accountId |-> parts[1],
      email |-> IF Len(parts) >= 2 THEN parts[2] ELSE <<>>,
      sig |-> IF Len(parts) >= 3 THEN parts[3] ELSE <<>>]
\* campaignEmail.js verifyUnsubscribeToken: { accountId, email } or null
verifyUnsubscribeToken(token) ==
  IF token = <<>> THEN NoToken
  ELSE LET p == tokenParts(token)
       IN IF p.accountId = <<>> \/ p.email = <<>> \/ p.sig = <<>> THEN NoToken
          ELSE IF p.sig # hmac(p.accountId \o <<":">> \o p.email) THEN NoToken
          ELSE [ok |-> TRUE, accountId |-> p.accountId, email |-> p.email]

\* index.js GET /pro/unsubscribe with a token that verifyUnsubscribeToken rejects
UnsubscribeBadToken ==
  /\ resp' = Response("unsubscribe", Null, 400, Null)
  /\ UNCHANGED proVars
  /\ UNCHANGED <<useDb, now, businesses, legacyEnv, allowedRatings>>
  /\ UNCHANGED <<autoVars, bdayVars, campVars>>

\* index.js GET /pro/unsubscribe, database mode: one UPDATE statement
UnsubscribeDb(a, email) ==
  /\ useDb
  /\ call.pc = "free"
  /\ contacts' = [contacts EXCEPT ![a] = dbUnsubscribe(@, email)]
  /\ optedOut' = [optedOut EXCEPT ![a] = @ \cup
                    (UnsubscribedKeys(contacts'[a]) \cap {toLowerCase(trim(email))})]
  /\ resp' = Response("unsubscribe", a, 200, Null)
  /\ UNCHANGED <<call, mailedAfterOptOut>>
  /\ UNCHANGED <<useDb, now, businesses, legacyEnv, allowedRatings>>
  /\ UNCHANGED <<autoVars, bdayVars, campVars>>

\* index.js GET /pro/unsubscribe, file mode: setProContactUnsubscribed begins
UnsubscribeFile(a, email) ==
  /\ ~useDb
  /\ call.pc = "free"
  /\ call' = [FreeCall EXCEPT !.pc = "readAll", !.op = "unsubscribe",
                                  !.acct = a, !.email = email]
  /\ UNCHANGED <<contacts, optedOut, mailedAfterOptOut>>
  /\ UNCHANGED tenantVars
  /\ UNCHANGED <<autoVars, bdayVars, campVars>>

\* index.js GET /pro/unsubscribe answered while replaceProContacts of the
\* same tenant is between two of its awaited steps: the UPDATE statement in
\* database mode, readAll and writeAll of setProContactUnsubscribed in file mode
UnsubscribeDuringUpload(a, email) ==
  /\ call.op = "upload" /\ call.acct = a
  /\ call.pc \in {"select", "delete", "insert", "readAll", "writeAll"}
  /\ contacts' = [contacts EXCEPT ![a] =
                    IF useDb THEN dbUnsubscribe(@, email) ELSE fileUnsubscribe(@, email)]
  /\ optedOut' = [optedOut EXCEPT ![a] = @ \cup
                    (UnsubscribedKeys(contacts'[a]) \cap {toLowerCase(trim(email))})]
  /\ resp' = Response("unsubscribe", a, 200, Null)
  /\ UNCHANGED <<call, mailedAfterOptOut>>
  /\ UNCHANGED <<useDb, now, businesses, legacyEnv, allowedRatings>>
  /\ UNCHANGED <<autoVars, bdayVars, campVars>>

\* index.js GET /pro/unsubscribe with a verified token of an account id that
\* no stored contact carries: setProContactUnsubscribed changes nothing
UnsubscribeNoAccount ==
  /\ call.pc = "free"
  /\ resp' = Response("unsubscribe", Null, 200, Null)
  /\ UNCHANGED proVars
  /\ UNCHANGED <<useDb, now, businesses, legacyEnv, allowedRatings>>
  /\ UNCHANGED <<autoVars, bdayVars, campVars>>

\* index.js GET /pro/unsubscribe?token=
GetProUnsubscribe(token) ==
  LET decoded == verifyUnsubscribeToken(token)
      a == AccountOf(decoded.accountId)
  IN IF ~decoded.ok THEN UnsubscribeBadToken
     ELSE IF a = Null THEN UnsubscribeNoAccount
     ELSE UnsubscribeDb(a, decoded.email) \/ UnsubscribeFile(a, decoded.email)

\* proContacts.js readAll and the synchronous code up to writeAll
FileReadAll ==
  /\ call.pc = "readAll"
  /\ LET a == call.acct
         list == IF call.op = "upload"
                 THEN fileReplace(contacts[a], call.rows)
                 ELSE fileUnsubscribe(contacts[a], call.email)
     IN call' = [call EXCEPT
                    !.all = [contacts EXCEPT ![a] = list],
                    !.pre = UnsubscribedKeys(contacts[a]),
                    !.pc = "writeAll"]
  /\ UNCHANGED <<contacts, optedOut, mailedAfterOptOut>>
  /\ UNCHANGED tenantVars
  /\ UNCHANGED <<autoVars, bdayVars, campVars>>

\* proContacts.js writeAll: the whole file is replaced
FileWriteAll ==
  /\ call.pc = "writeAll"
  /\ contacts' = call.all
  /\ LET a == call.acct
     IN /\ call' = [call EXCEPT !.pc = "respond"]
        /\ optedOut' =
             IF call.op = "unsubscribe"
             THEN [optedOut EXCEPT ![a] = @ \cup
                     (UnsubscribedKeys(call.all[a])
                        \cap {toLowerCase(trim(call.email))})]
             ELSE optedOut
  /\ UNCHANGED mailedAfterOptOut
  /\ UNCHANGED tenantVars
  /\ UNCHANGED <<autoVars, bdayVars, campVars>>

\* the handler answers: res.json / res.send
Respond ==
  /\ call.pc = "respond"
  /\ resp' = Response(call.op, call.acct, 200, Null)
  /\ call' = FreeCall
  /\ UNCHANGED <<contacts, optedOut, mailedAfterOptOut>>
  /\ UNCHANGED <<useDb, now, businesses, legacyEnv, allowedRatings>>
  /\ UNCHANGED <<autoVars, bdayVars, campVars>>

\* proCampaigns.js sendOneOffCampaign: one mail to every contact for sending
SendOneOffCampaign(a) ==
  /\ useDb
  /\ call.pc = "free"
  /\ mailedAfterOptOut' =
       IF isProBusiness(getBusiness(a))
       THEN [mailedAfterOptOut EXCEPT ![a] = @ \cup
               ({StoredKey(c) : c \in Range(getProContactsForSending(a))} \cap optedOut[a])]
       ELSE mailedAfterOptOut
  /\ UNCHANGED <<contacts, call, optedOut>>
  /\ UNCHANGED tenantVars
  /\ UNCHANGED <<autoVars, bdayVars, campVars>>


(* --------------------------- birthday matcher -------------------------- *)
isDigit(c) == c \in {"0", "1", "2", "3", "4", "5", "6", "7", "8", "9"}
digitValue(c) ==
  CASE c = "0" -> 0 [] c = "1" -> 1 [] c = "2" -> 2 [] c = "3" -> 3 [] c = "4" -> 4
    [] c = "5" -> 5 [] c = "6" -> 6 [] c = "7" -> 7 [] c = "8" -> 8 [] c = "9" -> 9

\* s.replace(/\//g, "-")
replaceSlashes(s) == [k \in 1..Len(s) |-> IF s[k] = "/" THEN "-" ELSE s[k]]

\* s.split("-")
RECURSIVE split(_)
split(s) ==
  LET dashes == {k \in 1..Len(s) : s[k] = "-"}
  IN IF dashes = {} THEN <<s>>
     ELSE LET k == CHOOSE x \in dashes : \A y \in dashes : x <= y
          IN <<SubSeq(s, 1, k - 1)>> \o split(SubSeq(s, k + 1, Len(s)))

\* parseInt(s, 10) for a string without a sign: leading white space is skipped,
\* the longest prefix of digits is read, NaN when there is none
NaN == 0 - 1
RECURSIVE digitsValue(_, _)
digitsValue(s, acc) ==
  IF s # <<>> /\ isDigit(Head(s))
  THEN digitsValue(Tail(s), acc * 10 + digitValue(Head(s)))
  ELSE acc
parseInt(s) ==
  LET t == trimStart(s)
  IN IF t # <<>> /\ isDigit(Head(t)) THEN digitsValue(t, 0) ELSE NaN

\* proCampaigns.js parseBirthday: { month, day } or null (ok = FALSE)
NoBirthday == [ok |-> FALSE, month |-> 0, day |-> 0]
parseBirthday(birthday) ==
  IF birthday = <<>> THEN NoBirthday
  ELSE LET s == replaceSlashes(trim(birthday))
           parts == split(s)
       IN IF Len(parts) >= 2
          THEN LET month == parseInt(parts[1])
                   day == parseInt(parts[Len(parts)])
               IN IF month # NaN /\ day # NaN
                     /\ month >= 1 /\ month <= 12 /\ day >= 1 /\ day <= 31
                  THEN [ok |-> TRUE, month |-> month, day |-> day]
                  ELSE NoBirthday
          ELSE NoBirthday

\* proCampaigns.js isBirthdayToday: the local month and day of new Date()
isBirthdayToday(month, day) == today.month = month /\ today.day = day

\* proCampaigns.js filterContactsWithBirthdayToday
filterContactsWithBirthdayToday(list) ==
  LET keep(c) == LET b == parseBirthday(c.birthday)
                 IN b.ok /\ isBirthdayToday(b.month, b.day)
  IN SelectSeq(list, keep)

\* birthday cells: YYYY-MM-DD, MM-DD, M-DD, MM/DD, M/DD, and free text
YearStrings == {<<"1", "9", "9", "0">>}
MonthStrings == {<<"0", "3">>, <<"3">>, <<"1", "3">>}
DayStrings == {<<"1", "4">>, <<"3", "1">>}
Birthdays ==
  {y \o <<"-">> \o m \o <<"-">> \o d : y \in YearStrings, m \in MonthStrings, d \in DayStrings}
  \cup {m \o sep \o d : m \in MonthStrings, sep \in {<<"-">>, <<"/">>}, d \in DayStrings}
  \cup {<<"M", "a", "r", "c", "h">>, <<>>}

\* the calendar days of the years the model runs in
Years == {2024, 2025}
isLeap(y) == (y % 4 = 0 /\ y % 100 # 0) \/ y % 400 = 0
daysIn(y, m) ==
  IF m = 2 THEN (IF isLeap(y) THEN 29 ELSE 28)
  ELSE IF m \in {4, 6, 9, 11} THEN 30 ELSE 31
Dates == {d \in [year : Years, month : 1..12, day : 1..31] : d.day <= daysIn(d.year, d.month)}

ContactNames == <<<<"a">>, <<"b">>, <<"c">>>>
ContactLists ==
  UNION {{[i \in 1..n |-> [email |-> ContactNames[i], birthday |-> f[i]]] :
            f \in [1..n -> Birthdays]} : n \in 1..MaxContacts}

NotRun == [ran |-> FALSE, list |-> <<>>]

\* proCampaigns.js sendBirthdayCampaignsForAccount: the contacts it mails today
FilterBirthdays ==
  /\ ~birthdayContacts.ran
  /\ birthdayContacts' = [ran |-> TRUE, list |-> filterContactsWithBirthdayToday(proList)]
  /\ UNCHANGED <<today, proList>>
  /\ UNCHANGED <<tenantVars, proVars>>
  /\ UNCHANGED <<autoVars, campVars>>

(* --------------------------- campaign calendar ------------------------- *)
\* the sign of the server zone's offset from UTC: west of it, UTC itself, east of it
Zones == {0 - 1, 0, 1}

nextDay(d) ==
  IF d.day < daysIn(d.year, d.month) THEN [d EXCEPT !.day = @ + 1]
  ELSE IF d.month < 12 THEN [d EXCEPT !.month = @ + 1, !.day = 1]
  ELSE [year |-> d.year + 1, month |-> 1, day |-> 1]
prevDay(d) ==
  IF d.day > 1 THEN [d EXCEPT !.day = @ - 1]
  ELSE IF d.month > 1
       THEN [d EXCEPT !.month = @ - 1, !.day = daysIn(d.year, d.month - 1)]
       ELSE [year |-> d.year - 1, month |-> 12, day |-> 31]
RECURSIVE plusDays(_, _)
plusDays(d, k) ==
  IF k = 0 THEN d
  ELSE IF k > 0 THEN plusDays(nextDay(d), k - 1) ELSE plusDays(prevDay(d), k + 1)

\* days from 2024-01-01 (a Monday) to the calendar day d
RECURSIVE daysBeforeMonth(_, _)
daysBeforeMonth(y, m) == IF m = 1 THEN 0 ELSE daysBeforeMonth(y, m - 1) + daysIn(y, m - 1)
RECURSIVE daysBeforeYear(_)
daysBeforeYear(y) ==
  IF y <= 2024 THEN 0 ELSE daysBeforeYear(y - 1) + (IF isLeap(y - 1) THEN 366 ELSE 365)
dayNumber(d) == daysBeforeYear(d.year) + daysBeforeMonth(d.year, d.month) + d.day - 1

\* A JS Date that stands at midnight: its local calendar date, and whether
\* the midnight is the zone's (new Date(y, m, d)) or UTC's (new Date("YYYY-MM-DD"))
DateLocal(d) == [local |-> d, at |-> "local"]
DateParse(iso) == [local |-> IF tz < 0 THEN prevDay(iso) ELSE iso, at |-> "utc"]
\* d.getDay(): 0 = Sunday
getDay(x) == (dayNumber(x.local) + 1) % 7
\* d.setDate(d.getDate() + k)
setDate(x, k) == [x EXCEPT !.local = plusDays(@, k)]
\* d.toISOString().slice(0, 10): the UTC calendar date
toISODate(x) ==
  IF x.at = "local" THEN (IF tz > 0 THEN prevDay(x.local) ELSE x.local)
  ELSE (IF tz < 0 THEN nextDay(x.local) ELSE x.local)

NoDate == [year |-> 0, month |-> 0, day |-> 0]

\* proCampaigns.js getNthWeekdayInMonth
getNthWeekdayInMonth(year, month, dayOfWeek, n) ==
  LET at(k) == DateLocal([year |-> year, month |-> month, day |-> k])
      hits == {k \in 1..daysIn(year, month) : getDay(at(k)) = dayOfWeek}
      nth == {k \in hits : Cardinality({h \in hits : h <= k}) = n}
  IN IF nth = {} THEN NoDate ELSE toISODate(at(CHOOSE k \in nth : TRUE))

\* proCampaigns.js EVENT_RULES / getEventSendDate, for the events of the model
EventKeys == {"mothers_day"}
EventYears == {2026}
getEventSendDate(eventKey, eventYear) ==
  CASE eventKey = "valentines_day" -> [year |-> eventYear, month |-> 2, day |-> 14]
    [] eventKey = "mothers_day" -> getNthWeekdayInMonth(eventYear, 5, 0, 2)

\* proCampaigns.js addDays
addDays(isoDate, days) == toISODate(setDate(DateParse(isoDate), days))
\* proCampaigns.js getSendDateForEvent
getSendDateForEvent(eventDateIso, sendDaysBefore) == addDays(eventDateIso, 0 - sendDaysBefore)

\* index.js runCampaignScheduler: new Date().toISOString().slice(0, 10); ticks
\* are taken at hours at which the zone's calendar date is the UTC one
utcToday == today

(* ---------------------------- campaign stores -------------------------- *)
\* pro_birthday_settings: one row per account, or none
NoSettings == [exists |-> FALSE, enabled |-> FALSE, messageText |-> ""]
\* db.js setProBirthdaySettings
setProBirthdaySettings(enabled, messageText) ==
  [exists |-> TRUE, enabled |-> enabled, messageText |-> messageText]

\* pro_event_campaigns: one row per (account_id, event_key, event_year)
EventIdOrder == <<<<"a1", "mothers_day", 2026>>>>
EventIds == Range(EventIdOrder)
NoCampaign ==
  [exists |-> FALSE, status |-> Null, sendDaysBefore |-> 14,
   confirmedAt |-> NullT, sentAt |-> NullT]
SEND_DAYS == {0, 1, 3, 7, 14}

\* db.js upsertProEventCampaign: every column is overwritten, sent_at included
upsertProEventCampaign(data) ==
  [exists |-> TRUE,
   status |-> IF data.status = Undefined THEN "pending" ELSE data.status,
   sendDaysBefore |-> data.sendDaysBefore,
   confirmedAt |-> data.confirmedAt,
   sentAt |-> data.sentAt]

\* db.js getProEventCampaignsDueToSend, in the order of EventIdOrder
getProEventCampaignsDueToSend ==
  LET due(id) == /\ eventCampaigns[id].exists
                 /\ eventCampaigns[id].status = "confirmed"
                 /\ eventCampaigns[id].sentAt = NullT
      row(id) == [accountId |-> id[1], eventKey |-> id[2], eventYear |-> id[3],
                  sendDaysBefore |-> eventCampaigns[id].sendDaysBefore]
      ids == SelectSeq(EventIdOrder, due)
  IN [n \in 1..Len(ids) |-> row(ids[n])]

\* db.js markProEventCampaignSent that leaves the row as it is
markProEventCampaignSentNot(row) == row
\* db.js markProEventCampaignSent
markProEventCampaignSent(row) ==
  IF row.exists THEN [row EXCEPT !.sentAt = now, !.status = "sent"] ELSE row

\* pro_one_off_campaigns: rows in id order
\* db.js createProOneOffCampaign
createProOneOffCampaign(accountId, sendDate) ==
  [account_id |-> accountId, send_date |-> sendDate, status |-> "scheduled"]
\* db.js getProOneOffCampaignsDueToSend with the comparison turned into equality
getProOneOffCampaignsDueToSendSameDay ==
  LET due(id) == /\ oneOffs[id].status = "scheduled"
                 /\ dayNumber(oneOffs[id].send_date) = dayNumber(today)
      ids == SelectSeq([n \in 1..Len(oneOffs) |-> n], due)
  IN [n \in 1..Len(ids) |-> [id |-> ids[n], account_id |-> oneOffs[ids[n]].account_id]]
\* db.js getProOneOffCampaignsDueToSend: send_date <= CURRENT_DATE
getProOneOffCampaignsDueToSend ==
  LET due(id) == /\ oneOffs[id].status = "scheduled"
                 /\ dayNumber(oneOffs[id].send_date) <= dayNumber(today)
      ids == SelectSeq([n \in 1..Len(oneOffs) |-> n], due)
  IN [n \in 1..Len(ids) |-> [id |-> ids[n], account_id |-> oneOffs[ids[n]].account_id]]
\* db.js markProOneOffCampaignSent
markProOneOffCampaignSent(rows, id) == [rows EXCEPT ![id].status = "sent"]

(* --------------------------- campaign scheduler ------------------------ *)
\* what a send call returned: { sent }, and which call it was
NoId == <<Null, Null, 0>>
Result(kind, acct, id, sent) == [kind |-> kind, acct |-> acct, id |-> id, sent |-> sent]
NoResult == Result(Null, Null, NoId, 0)
\* the campaign tick in flight: its position, what it still has to do, and
\* what its most recent send call returned
\* listed: the tenants and rows each step of the tick in flight has listed;
\* done: the send calls it has made, in order, with threw for a call that
\* rejected; log: the errors it has logged; ended: how the most recent tick
\* ended ("returned", or "failed" when the outer catch logged the error)
NothingListed == [birthday |-> <<>>, event |-> <<>>, oneoff |-> <<>>]
IdleTick ==
  [pc |-> "idle", proAccounts |-> <<>>, today |-> NoDate, eventDue |-> <<>>,
   oneOffDue |-> <<>>, result |-> NoResult, ticksToday |-> 0, day |-> 0,
   listed |-> NothingListed, done |-> <<>>, log |-> <<>>, ended |-> "none"]
Done(kind, acct, id, threw) == [kind |-> kind, acct |-> acct, id |-> id, threw |-> threw]
Logged(msg, acct, id) == [msg |-> msg, acct |-> acct, id |-> id]
\* a call of one of the three send functions that is between its first and
\* its last await: the addresses it loaded, the addresses it still has to mail,
\* its sent counter, and the sendCampaignEmail calls it has made
Send(kind, acct, id, queue) ==
  [kind |-> kind, acct |-> acct, id |-> id, queue |-> queue, sent |-> 0,
   list |-> queue, tried |-> <<>>]
CampaignEmails == {<<"a">>, <<"b">>, <<"c">>, <<"d">>}
EmptyLog ==
  [birthday |-> [a \in Tenants |-> [e \in CampaignEmails |-> 0]],
   event |-> [id \in EventIds |-> 0],
   oneOff |-> <<>>]
Emails(list) == [n \in 1..Len(list) |-> list[n].email]

\* index.js runCampaignScheduler: a for-loop starts its next call although the
\* previous one has not returned
mayStartNoAwait == TRUE
\* index.js runCampaignScheduler: every send call is awaited inside its
\* for-loop, so the next one starts when no call is in flight
mayStart == sends = {}

\* index.js start / setInterval: runCampaignScheduler up to its first loop
CampaignTick ==
  /\ useDb
  /\ ctick.pc = "idle"
  /\ sends = {}
  /\ ctick.ticksToday < MaxTicksPerDay
  /\ LET isPro(a) == isProBusiness(businesses[a])
     IN ctick' = [ctick EXCEPT !.pc = "birthdays",
                               !.proAccounts = SelectSeq(TenantOrder, isPro),
                               !.ticksToday = @ + 1,
                               !.listed = [NothingListed EXCEPT
                                             !.birthday = SelectSeq(TenantOrder, isPro)],
                               !.done = <<>>, !.log = <<>>, !.ended = "none"]
  /\ UNCHANGED <<tz, birthdaySettings, eventCampaigns, oneOffs, sends, campaignLog>>
  /\ UNCHANGED <<autoVars, tenantVars, proVars, bdayVars>>

\* step A: sendBirthdayCampaignsForAccount up to its mail loop
BirthdayNext ==
  /\ ctick.pc = "birthdays"
  /\ ctick.proAccounts # <<>>
  /\ mayStart
  /\ LET a == Head(ctick.proAccounts)
         settings == birthdaySettings[a]
         list == IF /\ settings.exists /\ settings.enabled /\ settings.messageText # ""
                    /\ isProBusiness(getBusiness(a))
                 THEN filterContactsWithBirthdayToday(getProContactsForSending(a))
                 ELSE <<>>
     IN /\ sends' = IF list = <<>> THEN sends
                    ELSE sends \cup {Send("birthday", a, NoId, Emails(list))}
        /\ ctick' = [ctick EXCEPT !.proAccounts = Tail(@),
                                  !.done = Append(@, Done("birthday", a, NoId, FALSE)),
                                  !.result = IF list = <<>>
                                             THEN Result("birthday", a, NoId, 0) ELSE @]
  /\ UNCHANGED <<tz, birthdaySettings, eventCampaigns, oneOffs, campaignLog>>
  /\ UNCHANGED <<autoVars, tenantVars, proVars, bdayVars>>

\* the mail loop left at the first sendCampaignEmail that throws
SendCampaignEmailStop(s, ok) ==
  /\ s \in sends
  /\ s.queue # <<>>
  /\ sends' = (sends \ {s})
                \cup {[s EXCEPT !.queue = IF ok THEN Tail(@) ELSE <<>>,
                                !.sent = IF ok THEN @ + 1 ELSE @,
                                !.tried = Append(@, [to |-> Head(s.queue), ok |-> ok])]}
  /\ campaignLog' =
       IF ok /\ s.kind = "birthday"
       THEN [campaignLog EXCEPT !.birthday[s.acct][Head(s.queue)] = @ + 1]
       ELSE campaignLog
  /\ UNCHANGED <<tz, birthdaySettings, eventCampaigns, oneOffs, ctick>>
  /\ UNCHANGED <<autoVars, tenantVars, proVars, bdayVars>>

\* sendCampaignEmail to the next address of a send call; a throw is caught
SendCampaignEmail(s, ok) ==
  /\ s \in sends
  /\ s.queue # <<>>
  /\ sends' = (sends \ {s})
                \cup {[s EXCEPT !.queue = Tail(@), !.sent = IF ok THEN @ + 1 ELSE @,
                                !.tried = Append(@, [to |-> Head(s.queue), ok |-> ok])]}
  /\ campaignLog' =
       IF ok /\ s.kind = "birthday"
       THEN [campaignLog EXCEPT !.birthday[s.acct][Head(s.queue)] = @ + 1]
       ELSE campaignLog
  /\ UNCHANGED <<tz, birthdaySettings, eventCampaigns, oneOffs, ctick>>
  /\ UNCHANGED <<autoVars, tenantVars, proVars, bdayVars>>

\* the end of a send call: the campaign is marked sent and { sent } returned
SendReturn(s) ==
  /\ s \in sends
  /\ s.queue = <<>>
  /\ sends' = sends \ {s}
  /\ eventCampaigns' =
       IF s.kind = "event"
       THEN [eventCampaigns EXCEPT ![s.id] = markProEventCampaignSent(@)]
       ELSE eventCampaigns
  /\ oneOffs' = IF s.kind = "oneoff" THEN markProOneOffCampaignSent(oneOffs, s.id[3])
                ELSE oneOffs
  /\ ctick' = [ctick EXCEPT !.result = Result(s.kind, s.acct, s.id, s.sent)]
  /\ UNCHANGED <<tz, birthdaySettings, campaignLog>>
  /\ UNCHANGED <<autoVars, tenantVars, proVars, bdayVars>>

\* step B begins: today and getProEventCampaignsDueToSend
EventsStart ==
  /\ ctick.pc = "birthdays"
  /\ ctick.proAccounts = <<>>
  /\ mayStart
  /\ ctick' = [ctick EXCEPT !.pc = "events", !.today = utcToday,
                            !.eventDue = getProEventCampaignsDueToSend,
                            !.listed.event = getProEventCampaignsDueToSend]
  /\ UNCHANGED <<tz, birthdaySettings, eventCampaigns, oneOffs, sends, campaignLog>>
  /\ UNCHANGED <<autoVars, tenantVars, proVars, bdayVars>>

\* whether runCampaignScheduler calls sendEventCampaignForAccount for a due row
isSendDay(e, day) ==
  getSendDateForEvent(getEventSendDate(e.eventKey, e.eventYear), e.sendDaysBefore) = day
\* the checks of sendEventCampaignForAccount without the test of isPro
isSendableAnyPlan(id) ==
  /\ eventCampaigns[id].exists
  /\ eventCampaigns[id].status = "confirmed"
  /\ eventCampaigns[id].sentAt = NullT
\* whether sendEventCampaignForAccount gets past its checks
isSendable(id) ==
  /\ eventCampaigns[id].exists
  /\ eventCampaigns[id].status = "confirmed"
  /\ eventCampaigns[id].sentAt = NullT
  /\ isProBusiness(getBusiness(id[1]))

\* step B, one due row: the date test and sendEventCampaignForAccount up to
\* its mail loop
EventNext ==
  /\ ctick.pc = "events"
  /\ ctick.eventDue # <<>>
  /\ mayStart
  /\ LET e == Head(ctick.eventDue)
         id == <<e.accountId, e.eventKey, e.eventYear>>
         list == getProContactsForSending(e.accountId)
     IN /\ ctick' = [ctick EXCEPT
                          !.eventDue = Tail(@),
                          !.done = IF isSendDay(e, ctick.today)
                                   THEN Append(@, Done("event", e.accountId, id, FALSE))
                                   ELSE @,
                          !.result = IF isSendDay(e, ctick.today)
                                        /\ (~isSendable(id) \/ list = <<>>)
                                     THEN Result("event", e.accountId, id, 0) ELSE @]
        /\ IF isSendDay(e, ctick.today) /\ isSendable(id)
           THEN /\ sends' = IF list = <<>> THEN sends
                            ELSE sends \cup {Send("event", e.accountId, id, Emails(list))}
                /\ eventCampaigns' =
                     IF list = <<>>
                     THEN [eventCampaigns EXCEPT ![id] = markProEventCampaignSent(@)]
                     ELSE eventCampaigns
                /\ campaignLog' = [campaignLog EXCEPT !.event[id] = @ + 1]
           ELSE UNCHANGED <<sends, eventCampaigns, campaignLog>>
  /\ UNCHANGED <<tz, birthdaySettings, oneOffs>>
  /\ UNCHANGED <<autoVars, tenantVars, proVars, bdayVars>>

\* step C begins: getProOneOffCampaignsDueToSend
OneOffsStart ==
  /\ ctick.pc = "events"
  /\ ctick.eventDue = <<>>
  /\ mayStart
  /\ ctick' = [ctick EXCEPT !.pc = "oneoffs",
                            !.oneOffDue = getProOneOffCampaignsDueToSend,
                            !.listed.oneoff = getProOneOffCampaignsDueToSend]
  /\ UNCHANGED <<tz, birthdaySettings, eventCampaigns, oneOffs, sends, campaignLog>>
  /\ UNCHANGED <<autoVars, tenantVars, proVars, bdayVars>>

\* step C, one due row: sendOneOffCampaign up to its mail loop
OneOffNext ==
  /\ ctick.pc = "oneoffs"
  /\ ctick.oneOffDue # <<>>
  /\ mayStart
  /\ LET row == Head(ctick.oneOffDue)
         a == row.account_id
     IN /\ ctick' = [ctick EXCEPT
                          !.oneOffDue = Tail(@),
                          !.done = Append(@, Done("oneoff", a, <<a, Null, row.id>>, FALSE)),
                          !.result = IF isProBusiness(getBusiness(a)) THEN @
                                     ELSE Result("oneoff", a, <<a, Null, row.id>>, 0)]
        /\ IF isProBusiness(getBusiness(a))
           THEN /\ sends' = sends \cup {Send("oneoff", a, <<a, Null, row.id>>,
                                             Emails(getProContactsForSending(a)))}
                /\ campaignLog' = [campaignLog EXCEPT !.oneOff[row.id] = @ + 1]
           ELSE UNCHANGED <<sends, campaignLog>>
  /\ UNCHANGED <<tz, birthdaySettings, eventCampaigns, oneOffs>>
  /\ UNCHANGED <<autoVars, tenantVars, proVars, bdayVars>>

\* runCampaignScheduler returns
CampaignTickEnd ==
  /\ ctick.pc = "oneoffs"
  /\ ctick.oneOffDue = <<>>
  /\ mayStart
  /\ ctick' = [ctick EXCEPT !.pc = "idle", !.today = NoDate, !.result = NoResult,
                            !.listed = NothingListed, !.done = <<>>, !.log = <<>>,
                            !.ended = "returned"]
  /\ UNCHANGED <<tz, birthdaySettings, eventCampaigns, oneOffs, sends, campaignLog>>
  /\ UNCHANGED <<autoVars, tenantVars, proVars, bdayVars>>

(* ---------------- campaign tick: calls of the store that reject --------- *)
\* what the outer catch of runCampaignScheduler leaves: the error is logged
\* and the function returns
OuterCatch(tick) ==
  [tick EXCEPT !.pc = "idle", !.today = NoDate, !.result = NoResult,
               !.proAccounts = <<>>, !.eventDue = <<>>, !.oneOffDue = <<>>,
               !.listed = NothingListed, !.done = <<>>, !.log = <<>>,
               !.ended = "failed"]

\* runCampaignScheduler: await getAllBusinesses() rejects
CampaignTickFail ==
  /\ useDb
  /\ ctick.pc = "idle"
  /\ sends = {}
  /\ ctick.ticksToday < MaxTicksPerDay
  /\ ctick' = OuterCatch([ctick EXCEPT !.ticksToday = @ + 1])
  /\ UNCHANGED <<tz, birthdaySettings, eventCampaigns, oneOffs, sends, campaignLog>>
  /\ UNCHANGED <<autoVars, tenantVars, proVars, bdayVars>>

\* runCampaignScheduler: await db.getProEventCampaignsDueToSend() rejects
EventsStartFail ==
  /\ ctick.pc = "birthdays"
  /\ ctick.proAccounts = <<>>
  /\ mayStart
  /\ ctick' = OuterCatch(ctick)
  /\ UNCHANGED <<tz, birthdaySettings, eventCampaigns, oneOffs, sends, campaignLog>>
  /\ UNCHANGED <<autoVars, tenantVars, proVars, bdayVars>>

\* runCampaignScheduler: await db.getProOneOffCampaignsDueToSend() rejects
OneOffsStartFail ==
  /\ ctick.pc = "events"
  /\ ctick.eventDue = <<>>
  /\ mayStart
  /\ ctick' = OuterCatch(ctick)
  /\ UNCHANGED <<tz, birthdaySettings, eventCampaigns, oneOffs, sends, campaignLog>>
  /\ UNCHANGED <<autoVars, tenantVars, proVars, bdayVars>>

\* the catch around sendBirthdayCampaignsForAccount when the call rejects
\* without its catch: the error leaves the for-loop and reaches the outer catch
BirthdayCaughtOutside(tick, a) == OuterCatch(tick)
\* the catch around sendBirthdayCampaignsForAccount when the call rejects
BirthdayCaught(tick, a) ==
  [tick EXCEPT !.proAccounts = Tail(@),
               !.done = Append(@, Done("birthday", a, NoId, TRUE)),
               !.log = Append(@, Logged("Birthday campaign tick failed", a, NoId))]

\* step A: a store call of sendBirthdayCampaignsForAccount rejects before the
\* mail loop (getProBirthdaySettings, getBusiness or getProContactsForSending)
BirthdayNextThrow ==
  /\ ctick.pc = "birthdays"
  /\ ctick.proAccounts # <<>>
  /\ mayStart
  /\ ctick' = BirthdayCaught(ctick, Head(ctick.proAccounts))
  /\ UNCHANGED <<tz, birthdaySettings, eventCampaigns, oneOffs, sends, campaignLog>>
  /\ UNCHANGED <<autoVars, tenantVars, proVars, bdayVars>>

\* step B, one due row on its send day: a store call of
\* sendEventCampaignForAccount rejects before the mail loop
EventNextThrow ==
  /\ ctick.pc = "events"
  /\ ctick.eventDue # <<>>
  /\ mayStart
  /\ LET e == Head(ctick.eventDue)
         id == <<e.accountId, e.eventKey, e.eventYear>>
     IN /\ isSendDay(e, ctick.today)
        /\ ctick' = [ctick EXCEPT
                          !.eventDue = Tail(@),
                          !.done = Append(@, Done("event", e.accountId, id, TRUE)),
                          !.log = Append(@, Logged("Event campaign send failed",
                                                   e.accountId, id))]
  /\ UNCHANGED <<tz, birthdaySettings, eventCampaigns, oneOffs, sends, campaignLog>>
  /\ UNCHANGED <<autoVars, tenantVars, proVars, bdayVars>>

\* step C, one due row: a store call of sendOneOffCampaign rejects before the
\* mail loop
OneOffNextThrow ==
  /\ ctick.pc = "oneoffs"
  /\ ctick.oneOffDue # <<>>
  /\ mayStart
  /\ LET row == Head(ctick.oneOffDue)
         a == row.account_id
     IN ctick' = [ctick EXCEPT
                     !.oneOffDue = Tail(@),
                     !.done = Append(@, Done("oneoff", a, <<a, Null, row.id>>, TRUE)),
                     !.log = Append(@, Logged("One-off campaign send failed",
                                              a, <<a, Null, row.id>>))]
  /\ UNCHANGED <<tz, birthdaySettings, eventCampaigns, oneOffs, sends, campaignLog>>
  /\ UNCHANGED <<autoVars, tenantVars, proVars, bdayVars>>

\* the end of the mail loop of an event or one-off send call whose
\* markPro...CampaignSent rejects: the campaign keeps its status
SendReturnThrow(s) ==
  /\ s \in sends
  /\ s.queue = <<>>
  /\ s.kind \in {"event", "oneoff"}
  /\ sends' = sends \ {s}
  /\ ctick' = [ctick EXCEPT
                  !.done = [@ EXCEPT ![Len(@)].threw = TRUE],
                  !.log = Append(@, Logged(IF s.kind = "event"
                                           THEN "Event campaign send failed"
                                           ELSE "One-off campaign send failed",
                                           s.acct, s.id))]
  /\ UNCHANGED <<tz, birthdaySettings, eventCampaigns, oneOffs, campaignLog>>
  /\ UNCHANGED <<autoVars, tenantVars, proVars, bdayVars>>

\* midnight passes while no tick is running
NextDay ==
  /\ ctick.pc = "idle"
  /\ ctick.day < MaxDays
  /\ today' = nextDay(today)
  /\ ctick' = [ctick EXCEPT !.ticksToday = 0, !.day = @ + 1]
  /\ campaignLog' = [campaignLog EXCEPT !.birthday = EmptyLog.birthday]
  /\ UNCHANGED <<tz, birthdaySettings, eventCampaigns, oneOffs, sends>>
  /\ UNCHANGED <<proList, birthdayContacts>>
  /\ UNCHANGED <<autoVars, tenantVars, proVars>>

\* index.js PATCH /pro/birthday-settings of a Pro tenant in database mode
PatchBirthdaySettings(a, enabled) ==
  /\ useDb
  /\ isProBusiness(getBusiness(a))
  /\ birthdaySettings' = [birthdaySettings EXCEPT ![a] = setProBirthdaySettings(enabled, "hb")]
  /\ UNCHANGED <<tz, eventCampaigns, oneOffs, ctick, sends, campaignLog>>
  /\ UNCHANGED <<autoVars, tenantVars, proVars, bdayVars>>

\* index.js PATCH /pro/events/:key/:year of a Pro tenant in database mode;
\* sendDaysBefore NullT stands for a body without the field
PatchEvent(a, key, year, status, sendDaysBefore) ==
  /\ useDb
  /\ isProBusiness(getBusiness(a))
  /\ LET days == IF sendDaysBefore # NullT THEN sendDaysBefore ELSE 14
         data == [status |-> status,
                  sendDaysBefore |-> IF days \in SEND_DAYS THEN days ELSE 14,
                  confirmedAt |-> IF status = "confirmed" THEN now ELSE NullT,
                  sentAt |-> NullT]
     IN /\ eventCampaigns' = [eventCampaigns EXCEPT ![<<a, key, year>>] = upsertProEventCampaign(data)]
        /\ campaignLog' = [campaignLog EXCEPT !.event[<<a, key, year>>] = 0]
  /\ UNCHANGED <<tz, birthdaySettings, oneOffs, ctick, sends>>
  /\ UNCHANGED <<autoVars, tenantVars, proVars, bdayVars>>

\* index.js POST /pro/one-off of a Pro tenant in database mode
CreateOneOff(a, sendDate) ==
  /\ useDb
  /\ isProBusiness(getBusiness(a))
  /\ Len(oneOffs) < MaxOneOffs
  /\ oneOffs' = Append(oneOffs, createProOneOffCampaign(a, sendDate))
  /\ campaignLog' = [campaignLog EXCEPT !.oneOff = Append(@, 0)]
  /\ UNCHANGED <<tz, birthdaySettings, eventCampaigns, ctick, sends>>
  /\ UNCHANGED <<autoVars, tenantVars, proVars, bdayVars>>

\* a connected tenant as /auth/google/callback and the store leave it
ConnectedBiz(enabled) ==
  [NoBiz EXCEPT !.exists = TRUE, !.has = IF useDb THEN Fields ELSE CoreFields,
                !.locationId = "loc", !.name = "n", !.contact = DEFAULT_CONTACT,
                !.autoReplyEnabled = enabled, !.intervalMinutes = DEFAULT_INTERVAL]

StepRun(r) ==
  \/ ReadState(r) \/ ListReviewsOk(r) \/ ListReviewsFail(r)
  \/ GetReplyTextOk(r) \/ GetReplyTextFail(r)
  \/ ReplyToReviewOk(r) \/ ReplyToReviewFail(r)
  \/ WriteStateDb(r) \/ WriteStateReadAll(r) \/ WriteStateWriteFile(r)

StepFree(r) ==
  \/ FrListOk(r) \/ FrFail(r) \/ FrGetReplyTextOk(r) \/ FrReplyToReviewOk(r)
  \/ AddRepliedReviewIdRead(r) \/ FrUpsert(r)

\* no contacts stored, no request in flight
InitPro ==
  /\ contacts = EmptyContacts
  /\ call = FreeCall
  /\ optedOut = [a \in Tenants |-> {}]
  /\ mailedAfterOptOut = [a \in Tenants |-> {}]
  /\ today = [year |-> 2024, month |-> 1, day |-> 1]
  /\ proList = <<>>
  /\ birthdayContacts = NotRun

\* no campaign stored, no campaign tick in flight
InitCamp ==
  /\ tz = 0
  /\ birthdaySettings = [a \in Tenants |-> NoSettings]
  /\ eventCampaigns = [id \in EventIds |-> NoCampaign]
  /\ oneOffs = <<>>
  /\ ctick = IdleTick
  /\ sends = {}
  /\ campaignLog = EmptyLog

InitAuto ==
  /\ useDb \in BOOLEAN
  /\ now = 0
  /\ businesses = [a \in Tenants |->
                     IF a = "a1" THEN ConnectedBiz(TRUE) ELSE NoBiz]
  /\ legacyEnv = NoLegacy
  /\ allowedRatings = 1..5
  /\ autoState = EmptyState
  /\ gReviews = [a \in Tenants |-> IF a = "a1" THEN <<1>> ELSE <<>>]
  /\ gHasReply = [a \in Tenants |-> {}]
  /\ gPosts = [a \in Tenants |-> [r \in ReviewIds |-> 0]]
  /\ runs = [r \in RunIds |-> FreeRun]
  /\ lastTick = NoTick
  /\ resp = NoResp
  /\ InitPro
  /\ InitCamp

vars == <<useDb, now, businesses, legacyEnv, allowedRatings, autoState,
          gReviews, gHasReply, gPosts, runs, lastTick, resp,
          contacts, call, optedOut, mailedAfterOptOut,
          today, proList, birthdayContacts,
          tz, birthdaySettings, eventCampaigns, oneOffs, ctick, sends, campaignLog>>

\* the launches of SpecAuto stop after MaxCalls calls
CallBudget == Cardinality(RunIds \ AvailableSlots) < MaxCalls

NextAuto ==
  \/ CallBudget /\ Tick
  \/ CallBudget /\ \E a \in {"a1"} : ManualProcess(a)
  \/ CallBudget /\ \E a \in {"a1"} : FreeReplyStart(a)
  \/ \E a \in {"a1"} : NewReview(a)
  \/ \E r \in RunIds : StepRun(r)
  \/ \E r \in RunIds : StepFree(r)

SpecAuto == InitAuto /\ [][NextAuto]_vars

(* -------------------- specification: tenant lifecycle ------------------ *)
\* The store outlives the process.  In database mode a row may hold any value
\* the columns of db.js init admit; in file mode a record holds what
\* upsertBusiness writes.  No tenant starts with an expired trial.
StoredBiz(enabled, trialEndsAt, subscribedAt) ==
  IF useDb
  THEN [ConnectedBiz(enabled) EXCEPT
          !.trialEndsAt = trialEndsAt, !.subscribedAt = subscribedAt,
          !.stripeCustomerId = IF subscribedAt = NullT THEN Null ELSE "cus1"]
  ELSE ConnectedBiz(enabled)

InitTenant ==
  /\ useDb \in BOOLEAN
  /\ now = 0
  /\ \E enabled \in BOOLEAN : \E t \in {NullT, 1} : \E sub \in {NullT, 0} :
       businesses = [a \in Tenants |->
                       IF a = "a1" THEN StoredBiz(enabled, t, sub) ELSE NoBiz]
  /\ legacyEnv = NoLegacy
  /\ allowedRatings = 1..5
  /\ autoState = EmptyState
  /\ gReviews = [a \in Tenants |-> <<>>]
  /\ gHasReply = [a \in Tenants |-> {}]
  /\ gPosts = [a \in Tenants |-> [r \in ReviewIds |-> 0]]
  /\ runs = [r \in RunIds |-> FreeRun]
  /\ lastTick = NoTick
  /\ resp = NoResp
  /\ InitPro
  /\ InitCamp

NextTenant ==
  \/ ~lastTick.fired /\ Tick
  \/ \E a \in {"a1", "a2"} : \E body \in PatchBodies : Patch(a, body)
  \/ Connect("a2")
  \/ \E a \in {"a1", "a2"} : ConnectedPage(a)
  \/ \E a \in {"a1", "a2"} : \E isPro \in BOOLEAN : WebhookCheckoutCompleted(a, "cus1", isPro)
  \/ \E c \in Customers : \E active \in BOOLEAN : WebhookSubscriptionUpdated(c, active, FALSE)
  \/ \E c \in Customers : WebhookSubscriptionDeleted(c)
  \/ AdvanceClock

SpecTenant == InitTenant /\ [][NextTenant]_vars

(* -------------------- specification: one tick, three tenants ----------- *)
InitTick ==
  /\ useDb \in BOOLEAN
  /\ now = 0
  /\ businesses = [a \in Tenants |-> ConnectedBiz(TRUE)]
  /\ legacyEnv = NoLegacy
  /\ allowedRatings = 1..5
  /\ autoState = EmptyState
  /\ gReviews = [a \in Tenants |-> <<1>>]
  /\ gHasReply = [a \in Tenants |-> {}]
  /\ gPosts = [a \in Tenants |-> [r \in ReviewIds |-> 0]]
  /\ runs = [r \in RunIds |-> FreeRun]
  /\ lastTick = NoTick
  /\ resp = NoResp
  /\ InitPro
  /\ InitCamp

NextTick == Tick \/ \E r \in RunIds : StepRun(r)

SpecTick == InitTick /\ [][NextTick]_vars

\* every awaited call settles, so every launched call is resumed
FairSpecTick == SpecTick /\ \A r \in RunIds : WF_vars(StepRun(r))

(* -------------------- specification: Pro contact store ----------------- *)
ProBiz == [ConnectedBiz(FALSE) EXCEPT !.has = @ \cup {"isPro"}, !.isPro = TRUE]

\* the list tenant a2 uploaded while it was on the Pro plan
FormerList == <<Contact(<<"b">>, <<"x">>, NullT), Contact(<<"a">>, <<"y">>, 0)>>

InitContacts ==
  /\ useDb \in BOOLEAN
  /\ now = 1
  /\ businesses = [a \in Tenants |->
                     IF a = "a1" THEN ProBiz
                     ELSE IF a = "a2" THEN ConnectedBiz(FALSE) ELSE NoBiz]
  /\ legacyEnv = NoLegacy
  /\ allowedRatings = 1..5
  /\ autoState = EmptyState
  /\ gReviews = [a \in Tenants |-> <<>>]
  /\ gHasReply = [a \in Tenants |-> {}]
  /\ gPosts = [a \in Tenants |-> [r \in ReviewIds |-> 0]]
  /\ runs = [r \in RunIds |-> FreeRun]
  /\ lastTick = NoTick
  /\ resp = NoResp
  /\ contacts = [a \in Tenants |-> IF a = "a2" THEN FormerList ELSE <<>>]
  /\ call = FreeCall
  /\ optedOut = [a \in Tenants |-> {}]
  /\ mailedAfterOptOut = [a \in Tenants |-> {}]
  /\ today = [year |-> 2024, month |-> 1, day |-> 1]
  /\ proList = <<>>
  /\ birthdayContacts = NotRun
  /\ InitCamp

StepCall ==
  \/ DbSelect \/ DbDelete \/ DbInsert
  \/ FileReadAll \/ FileWriteAll \/ Respond

NextContacts ==
  \/ \E rows \in UploadLists : UploadContacts("a1", rows)
  \/ \E a \in {"a2", "a3"} : UploadContacts(a, <<>>)
  \/ UnsubscribeBadToken
  \/ \E email \in UnsubscribeEmails : UnsubscribeDb("a1", email)
  \/ \E email \in UnsubscribeEmails : UnsubscribeFile("a1", email)
  \/ StepCall
  \/ SendOneOffCampaign("a1")

SpecContacts == InitContacts /\ [][NextContacts]_vars

(* -------------------- specification: unsubscribe links ----------------- *)
\* the addresses campaign mail is sent to
TokenEmails == {<<"a">>, <<"A", " ">>, <<"b">>, <<"a", ":", "b">>}
\* the tokens sendCampaignEmail has put into its mails
IssuedTokens ==
  {createUnsubscribeToken(AccountText(a), e) : a \in {"a1", "a2", "gone"}, e \in TokenEmails}
\* texts put together without the secret: no signature, the signature of
\* another payload, a signature made up, an address in capitals
ForgedTokens ==
  { <<>>, <<"1">>, <<"1", ":", "a">>, <<"1", ":", ":", "#", "1", "|">>,
    <<"1", ":", "a", ":", "x">>,
    <<"1", ":", "a", ":", "#", "2", "|", "a">>,
    <<"1", ":", "b", ":", "#", "1", "|", "a">>,
    <<"2", ":", "b", ":", "#", "1", "|", "b">>,
    <<"1", ":", "A", ":", "#", "1", "|", "a">> }
Tokens == IssuedTokens \cup ForgedTokens

\* the stored lists of the tenants a1 and a2: the same address b in both
StoredLists(db) ==
  [a \in Tenants |->
     IF a = "a1"
     THEN <<Contact(IF db THEN <<"a">> ELSE <<"A">>, <<"x">>, NullT),
            Contact(<<"b">>, <<"y">>, NullT),
            Contact(<<"a", ":", "b">>, <<"x">>, NullT),
            Contact(IF db THEN NullE ELSE <<>>, <<"z">>, NullT)>>
     ELSE IF a = "a2" THEN FormerList ELSE <<>>]

InitUnsub ==
  /\ useDb \in BOOLEAN
  /\ now = 1
  /\ businesses = [a \in Tenants |->
                     IF a = "a1" THEN ProBiz
                     ELSE IF a = "a2" THEN ConnectedBiz(FALSE) ELSE NoBiz]
  /\ legacyEnv = NoLegacy
  /\ allowedRatings = 1..5
  /\ autoState = EmptyState
  /\ gReviews = [a \in Tenants |-> <<>>]
  /\ gHasReply = [a \in Tenants |-> {}]
  /\ gPosts = [a \in Tenants |-> [r \in ReviewIds |-> 0]]
  /\ runs = [r \in RunIds |-> FreeRun]
  /\ lastTick = NoTick
  /\ resp = NoResp
  /\ contacts = StoredLists(useDb)
  /\ call = FreeCall
  /\ optedOut = [a \in Tenants |-> {}]
  /\ mailedAfterOptOut = [a \in Tenants |-> {}]
  /\ today = [year |-> 2024, month |-> 1, day |-> 1]
  /\ proList = <<>>
  /\ birthdayContacts = NotRun
  /\ InitCamp

NextUnsub ==
  \/ \E token \in Tokens : GetProUnsubscribe(token)
  \/ FileReadAll \/ FileWriteAll \/ Respond

SpecUnsub == InitUnsub /\ [][NextUnsub]_vars

(* -------------------- specification: birthday matcher ------------------ *)
InitBirthday ==
  /\ useDb = TRUE
  /\ now = 0
  /\ businesses = [a \in Tenants |-> IF a = "a1" THEN ProBiz ELSE NoBiz]
  /\ legacyEnv = NoLegacy
  /\ allowedRatings = 1..5
  /\ autoState = EmptyState
  /\ gReviews = [a \in Tenants |-> <<>>]
  /\ gHasReply = [a \in Tenants |-> {}]
  /\ gPosts = [a \in Tenants |-> [r \in ReviewIds |-> 0]]
  /\ runs = [r \in RunIds |-> FreeRun]
  /\ lastTick = NoTick
  /\ resp = NoResp
  /\ contacts = EmptyContacts
  /\ call = FreeCall
  /\ optedOut = [a \in Tenants |-> {}]
  /\ mailedAfterOptOut = [a \in Tenants |-> {}]
  /\ today \in Dates
  /\ proList \in ContactLists
  /\ birthdayContacts = NotRun
  /\ InitCamp

NextBirthday == FilterBirthdays

SpecBirthday == InitBirthday /\ [][NextBirthday]_vars

(* -------------------- specification: campaign scheduler ---------------- *)
\* the stored contacts of the campaign tenants, with their birthday cells
CampaignContact(email, birthday) ==
  [email |-> email, unsubscribed_at |-> NullT, birthday |-> birthday]
ContactA == CampaignContact(<<"a">>, <<"4", "/", "2", "6">>)
ContactB ==
  [CampaignContact(<<"b">>, <<"0", "4", "-", "2", "6">>) EXCEPT !.unsubscribed_at = 0]
ContactC == CampaignContact(<<"c">>, <<"1", "9", "9", "0", "-", "0", "4", "-", "2", "6">>)
CampaignLists == {<<>>, <<ContactB>>, <<ContactA, ContactB>>}
\* the days the behaviours start on
StartDates ==
  {[year |-> 2026, month |-> 4, day |-> 25], [year |-> 2026, month |-> 5, day |-> 2]}
StatusInputs == {"confirmed", Undefined}
DaysInputs == {NullT, 7, 5}

InitCampaign ==
  /\ useDb = TRUE
  /\ now = 1
  /\ businesses = [a \in Tenants |-> IF a = "a3" THEN ConnectedBiz(FALSE) ELSE ProBiz]
  /\ legacyEnv = NoLegacy
  /\ allowedRatings = 1..5
  /\ autoState = EmptyState
  /\ gReviews = [a \in Tenants |-> <<>>]
  /\ gHasReply = [a \in Tenants |-> {}]
  /\ gPosts = [a \in Tenants |-> [r \in ReviewIds |-> 0]]
  /\ runs = [r \in RunIds |-> FreeRun]
  /\ lastTick = NoTick
  /\ resp = NoResp
  /\ \E list \in CampaignLists :
       contacts = [a \in Tenants |-> IF a = "a1" THEN list
                                     ELSE IF a = "a2" THEN <<ContactC>> ELSE <<>>]
  /\ call = FreeCall
  /\ optedOut = [a \in Tenants |-> {}]
  /\ mailedAfterOptOut = [a \in Tenants |-> {}]
  /\ today \in StartDates
  /\ proList = <<>>
  /\ birthdayContacts = NotRun
  /\ tz \in Zones
  /\ birthdaySettings = [a \in Tenants |->
                           IF a = "a2" THEN setProBirthdaySettings(TRUE, "hb")
                           ELSE NoSettings]
  /\ eventCampaigns = [id \in EventIds |-> NoCampaign]
  /\ oneOffs = <<>>
  /\ ctick = IdleTick
  /\ sends = {}
  /\ campaignLog = EmptyLog

StepCampaignTick ==
  \/ BirthdayNext
  \/ \E s \in sends, ok \in BOOLEAN : SendCampaignEmail(s, ok)
  \/ \E s \in sends : SendReturn(s)
  \/ EventsStart \/ EventNext \/ OneOffsStart \/ OneOffNext \/ CampaignTickEnd

NextCampaign ==
  \/ CampaignTick
  \/ StepCampaignTick
  \/ NextDay
  \/ \E enabled \in BOOLEAN : PatchBirthdaySettings("a1", enabled)
  \/ \E key \in EventKeys, year \in EventYears, status \in StatusInputs, days \in DaysInputs :
       PatchEvent("a1", key, year, status, days)
  \/ \E d \in {prevDay(today), today, nextDay(today)} : CreateOneOff("a1", d)

SpecCampaign == InitCampaign /\ [][NextCampaign]_vars

(* -------------------- specification: the send routines ----------------- *)
ProBizEnabled == [ConnectedBiz(TRUE) EXCEPT !.has = @ \cup {"isPro"}, !.isPro = TRUE]
ConfirmedCampaign ==
  upsertProEventCampaign([status |-> "confirmed", sendDaysBefore |-> 14,
                          confirmedAt |-> 0, sentAt |-> NullT])
\* a stored contact without an email, and a second sendable contact
ContactN == CampaignContact(NullE, <<"4", "/", "2", "6">>)
ContactD == CampaignContact(<<"d">>, <<"0", "4", "-", "2", "6">>)
SendLists == {<<>>, <<ContactN, ContactB>>, <<ContactA, ContactN, ContactB, ContactD>>}
\* the status field of a PATCH /pro/events body
AllStatusInputs == {"confirmed", Undefined, "skipped", "sent"}

\* 26 April 2026, server at UTC.  Tenant a1 is Pro or not (its row was changed
\* since it stored its campaigns); its mothers_day campaign of 2026 may be
\* confirmed, which makes today its send day, and it may have a one-off
\* campaign that was due yesterday.
InitSend ==
  /\ useDb = TRUE
  /\ now = 1
  /\ \E pro \in BOOLEAN :
       businesses = [a \in Tenants |->
                       IF a = "a2" \/ (a = "a1" /\ pro) THEN ProBiz
                       ELSE ConnectedBiz(FALSE)]
  /\ legacyEnv = NoLegacy
  /\ allowedRatings = 1..5
  /\ autoState = EmptyState
  /\ gReviews = [a \in Tenants |-> <<>>]
  /\ gHasReply = [a \in Tenants |-> {}]
  /\ gPosts = [a \in Tenants |-> [r \in ReviewIds |-> 0]]
  /\ runs = [r \in RunIds |-> FreeRun]
  /\ lastTick = NoTick
  /\ resp = NoResp
  /\ \E list \in SendLists :
       contacts = [a \in Tenants |-> IF a = "a1" THEN list
                                     ELSE IF a = "a2" THEN <<ContactC>> ELSE <<>>]
  /\ call = FreeCall
  /\ optedOut = [a \in Tenants |-> {}]
  /\ mailedAfterOptOut = [a \in Tenants |-> {}]
  /\ today = [year |-> 2026, month |-> 4, day |-> 26]
  /\ proList = <<>>
  /\ birthdayContacts = NotRun
  /\ tz = 0
  /\ birthdaySettings = [a \in Tenants |->
                           IF a = "a3" THEN NoSettings
                           ELSE setProBirthdaySettings(TRUE, "hb")]
  /\ \E confirmed \in BOOLEAN :
       eventCampaigns = [id \in EventIds |->
                           IF confirmed THEN ConfirmedCampaign ELSE NoCampaign]
  /\ \E stored \in BOOLEAN :
       /\ oneOffs = IF stored
                    THEN <<createProOneOffCampaign("a1", prevDay(today))>>
                    ELSE <<>>
       /\ campaignLog = [EmptyLog EXCEPT !.oneOff = IF stored THEN <<0>> ELSE <<>>]
  /\ ctick = IdleTick
  /\ sends = {}

NextSend ==
  \/ CampaignTick
  \/ StepCampaignTick
  \/ \E key \in EventKeys, year \in EventYears, status \in AllStatusInputs :
       PatchEvent("a1", key, year, status, NullT)

SpecSend == InitSend /\ [][NextSend]_vars

(* ------------- specification: the two schedulers side by side ---------- *)

\* three enabled tenants with one review each, two of them Pro with a birthday
\* contact; a confirmed event campaign and a one-off campaign are due
InitTicks ==
  /\ useDb \in BOOLEAN
  /\ now = 1
  /\ businesses = [a \in Tenants |-> IF a = "a3" THEN ConnectedBiz(TRUE) ELSE ProBizEnabled]
  /\ legacyEnv = NoLegacy
  /\ allowedRatings = 1..5
  /\ autoState = EmptyState
  /\ gReviews = [a \in Tenants |-> <<1>>]
  /\ gHasReply = [a \in Tenants |-> {}]
  /\ gPosts = [a \in Tenants |-> [r \in ReviewIds |-> 0]]
  /\ runs = [r \in RunIds |-> FreeRun]
  /\ lastTick = NoTick
  /\ resp = NoResp
  /\ contacts = [a \in Tenants |-> IF a = "a1" THEN <<ContactA>>
                                   ELSE IF a = "a2" THEN <<ContactC>> ELSE <<>>]
  /\ call = FreeCall
  /\ optedOut = [a \in Tenants |-> {}]
  /\ mailedAfterOptOut = [a \in Tenants |-> {}]
  /\ today = [year |-> 2026, month |-> 4, day |-> 26]
  /\ proList = <<>>
  /\ birthdayContacts = NotRun
  /\ tz = 0
  /\ birthdaySettings = [a \in Tenants |->
                           IF a = "a3" THEN NoSettings
                           ELSE setProBirthdaySettings(TRUE, "hb")]
  /\ eventCampaigns = [id \in EventIds |-> ConfirmedCampaign]
  /\ oneOffs = <<createProOneOffCampaign("a2", [year |-> 2026, month |-> 4, day |-> 25])>>
  /\ ctick = IdleTick
  /\ sends = {}
  /\ campaignLog = [EmptyLog EXCEPT !.oneOff = <<0>>]

NextTicks ==
  \/ Tick
  \/ \E r \in RunIds : StepRun(r)
  \/ CampaignTick
  \/ StepCampaignTick

SpecTicks == InitTicks /\ [][NextTicks]_vars

(* ------------- specification: the two schedulers, with faults --------- *)
StepCampaignFault ==
  \/ CampaignTickFail \/ EventsStartFail \/ OneOffsStartFail
  \/ BirthdayNextThrow \/ EventNextThrow \/ OneOffNextThrow
  \/ \E s \in sends : SendReturnThrow(s)

NextFaults ==
  \/ ~lastTick.fired /\ Tick
  \/ ~lastTick.fired /\ TickEnumerateFail
  \/ \E r \in RunIds : StepRun(r)
  \/ CampaignTick
  \/ StepCampaignTick
  \/ StepCampaignFault

\* as InitTicks, with auto-reply switched on for tenant a3 only
InitFaults ==
  /\ useDb \in BOOLEAN
  /\ now = 1
  /\ businesses = [a \in Tenants |-> IF a = "a3" THEN ConnectedBiz(TRUE) ELSE ProBiz]
  /\ legacyEnv = NoLegacy
  /\ allowedRatings = 1..5
  /\ autoState = EmptyState
  /\ gReviews = [a \in Tenants |-> <<1>>]
  /\ gHasReply = [a \in Tenants |-> {}]
  /\ gPosts = [a \in Tenants |-> [r \in ReviewIds |-> 0]]
  /\ runs = [r \in RunIds |-> FreeRun]
  /\ lastTick = NoTick
  /\ resp = NoResp
  /\ contacts = [a \in Tenants |-> IF a = "a1" THEN <<ContactA>>
                                   ELSE IF a = "a2" THEN <<ContactC>> ELSE <<>>]
  /\ call = FreeCall
  /\ optedOut = [a \in Tenants |-> {}]
  /\ mailedAfterOptOut = [a \in Tenants |-> {}]
  /\ today = [year |-> 2026, month |-> 4, day |-> 26]
  /\ proList = <<>>
  /\ birthdayContacts = NotRun
  /\ tz = 0
  /\ birthdaySettings = [a \in Tenants |->
                           IF a = "a3" THEN NoSettings
                           ELSE setProBirthdaySettings(TRUE, "hb")]
  /\ eventCampaigns = [id \in EventIds |-> ConfirmedCampaign]
  /\ oneOffs = <<createProOneOffCampaign("a2", [year |-> 2026, month |-> 4, day |-> 25])>>
  /\ ctick = IdleTick
  /\ sends = {}
  /\ campaignLog = [EmptyLog EXCEPT !.oneOff = <<0>>]

SpecFaults == InitFaults /\ [][NextFaults]_vars

(* -------------------- specification: the reply loop, with faults ------- *)
\* AUTO_REPLY_RATINGS parsed: the default, "5", and "5,," (Number("") is 0)
RatingSets == {1..5, {5}, {0, 5}}
LastReview == MaxReviews

\* Tenant a1 is enabled; the location has every review of ReviewIds.  The last
\* review may carry a reply on the platform, and the service may have replied
\* to it in an earlier run (then its id is in reply-state).
InitLoop ==
  /\ useDb \in BOOLEAN
  /\ now = 0
  /\ businesses = [a \in Tenants |-> IF a = "a1" THEN ConnectedBiz(TRUE) ELSE NoBiz]
  /\ legacyEnv = NoLegacy
  /\ allowedRatings \in RatingSets
  /\ \E earlier \in BOOLEAN : \E shown \in BOOLEAN :
       /\ autoState = [a \in Tenants |->
                        IF a = "a1" /\ earlier THEN {LastReview} ELSE {}]
       /\ gPosts = [a \in Tenants |-> [r \in ReviewIds |->
                       IF a = "a1" /\ earlier /\ r = LastReview THEN 1 ELSE 0]]
       /\ gHasReply = [a \in Tenants |->
                        IF a = "a1" /\ shown THEN {LastReview} ELSE {}]
  /\ gReviews = [a \in Tenants |-> IF a = "a1" THEN SortedSeq(ReviewIds) ELSE <<>>]
  /\ runs = [r \in RunIds |-> FreeRun]
  /\ lastTick = NoTick
  /\ resp = NoResp
  /\ InitPro
  /\ InitCamp

StepFault(r) == ReadStateFail(r) \/ WriteStateFail(r)

NextLoop ==
  \/ CallBudget /\ Tick
  \/ CallBudget /\ ManualProcess("a1")
  \/ \E r \in RunIds : StepRun(r)
  \/ \E r \in RunIds : StepFault(r)
  \/ Crash

SpecLoop == InitLoop /\ [][NextLoop]_vars

(* -------------------- specification: the legacy pair ------------------- *)
LegacyInputs == {NoLegacy, Legacy("a3", "loc"), Legacy("a3", Null), Legacy(Null, "loc")}

InitLegacy ==
  /\ useDb \in BOOLEAN
  /\ now = 0
  /\ \E enabled \in BOOLEAN : \E t \in {NullT, 1} : \E sub \in {NullT, 0} :
       businesses = [a \in Tenants |->
                       IF a = "a1" THEN StoredBiz(enabled, t, sub) ELSE NoBiz]
  /\ legacyEnv \in LegacyInputs
  /\ allowedRatings = 1..5
  /\ autoState = EmptyState
  /\ gReviews = [a \in Tenants |-> <<>>]
  /\ gHasReply = [a \in Tenants |-> {}]
  /\ gPosts = [a \in Tenants |-> [r \in ReviewIds |-> 0]]
  /\ runs = [r \in RunIds |-> FreeRun]
  /\ lastTick = NoTick
  /\ resp = NoResp
  /\ InitPro
  /\ InitCamp

NextLegacy ==
  \/ ~lastTick.fired /\ Tick
  \/ \E body \in PatchBodies : Patch("a1", body)
  \/ AdvanceClock

SpecLegacy == InitLegacy /\ [][NextLegacy]_vars

(* ------------------------------ claims --------------------------------- *)
Proc(r) == runs[r].origin \in {"tick", "manual"}

\* the successful replyToReview calls processPendingReviews made for review rid of a
ReplyEvents(a, rid) ==
  {e \in RunIds \X (1..MaxReviews) :
     /\ Proc(e[1]) /\ runs[e[1]].acct = a
     /\ e[2] <= Len(runs[e[1]].details)
     /\ runs[e[1]].details[e[2]] = Detail(rid, "ok", Undefined)}

\* C1: across all interleavings of scheduler ticks and /auto/process runs,
\* processPendingReviews makes at most one successful replyToReview call per
\* review id of a (tenant, location).
C1_AtMostOneReply ==
  \A a \in Tenants : \A rid \in ReviewIds : Cardinality(ReplyEvents(a, rid)) <= 1

OkIds(r) == {runs[r].details[k].reviewId : k \in
               {j \in 1..Len(runs[r].details) : runs[r].details[j].status = "ok"}}

\* q ran right after p: p had returned with no failure and without overlapping
\* another call when q started, and q fetched the review list p fetched
RanAgain(p, q) ==
  /\ p # q /\ Proc(p) /\ Proc(q) /\ runs[p].acct = runs[q].acct
  /\ runs[p].pc = "done" /\ runs[p].outcome = "returned" /\ runs[p].failed = 0
  /\ runs[p].solo /\ p \in runs[q].after
  /\ runs[q].pc \in {"getReplyText", "replyToReview", "writeState", "writeFile", "done"}
  /\ runs[q].outcome # "threw"
  /\ runs[q].reviews = runs[p].reviews

\* C2: when processPendingReviews completed with every candidate succeeding,
\* a second run over the same review list finds every id p replied to in the
\* loaded reply-state, has no candidate and attempts no reply.
C2_SecondRunAttemptsNothing ==
  \A p \in RunIds : \A q \in RunIds :
    RanAgain(p, q) =>
      /\ OkIds(p) \subseteq runs[q].loaded
      /\ runs[q].toReply = <<>>
      /\ runs[q].attempted = 0

C2_Witness ==
  \E p \in RunIds : \E q \in RunIds :
    /\ RanAgain(p, q) /\ runs[p].succeeded >= 1
    /\ runs[q].pc = "done" /\ runs[q].attempted = 0

\* C3: the persisted repliedReviewIds of a (tenant, location) only grows: no
\* step removes a review id from the stored set.
C3_ReplyStateOnlyGrows ==
  [][\A a \in Tenants : autoState[a] \subseteq autoState'[a]]_vars

TickRun(r) == runs[r].origin = "tick"
Failed(r) == runs[r].outcome = "threw" \/ runs[r].failed > 0

\* C4: in one tick a tenant whose run throws or returns failed > 0 raises an
\* alert for that tenant and no other, every eligible tenant of the tick gets
\* its own run, and every run that was started completes whatever happens to
\* the others.
C4_TickIsolation ==
  /\ [](\A r \in RunIds : (TickRun(r) /\ runs[r].pc = "done") =>
                            (runs[r].alerted <=> Failed(r)))
  /\ [](lastTick.fired =>
          \A a \in lastTick.processed : \E r \in RunIds : TickRun(r) /\ runs[r].acct = a)
  /\ \A r \in RunIds : (runs[r].pc = "readState") ~> (runs[r].pc = "done")

RunOf(a) == CHOOSE r \in RunIds : TickRun(r) /\ runs[r].acct = a

C4_Witness ==
  /\ \A a \in Tenants : \E r \in RunIds : TickRun(r) /\ runs[r].acct = a /\ runs[r].pc = "done"
  /\ runs[RunOf("a2")].outcome = "threw" /\ runs[RunOf("a2")].alerted
  /\ \A a \in {"a1", "a3"} :
       /\ runs[RunOf(a)].outcome = "returned" /\ runs[RunOf(a)].succeeded = 1
       /\ ~runs[RunOf(a)].alerted
  /\ Cardinality({r \in RunIds : runs[r].alerted}) = 1


\* the trial of stored tenant a is over and it has no subscription
TrialOverUnsubscribed(a) ==
  LET b == businesses[a]
  IN /\ b.exists
     /\ "trialEndsAt" \in b.has /\ b.trialEndsAt # NullT /\ b.trialEndsAt < now
     /\ ~("subscribedAt" \in b.has /\ b.subscribedAt # NullT)

AutoReplyOn(a) ==
  businesses[a].exists /\ "autoReplyEnabled" \in businesses[a].has
  /\ businesses[a].autoReplyEnabled

\* C5: an auto-reply tick processes exactly the tenants with autoReplyEnabled
\* = true whose trial is not over or who are subscribed.
C5_TickProcessesEligibleOnly ==
  [][Tick => lastTick'.processed =
               {a \in Tenants : AutoReplyOn(a) /\ ~TrialOverUnsubscribed(a)}]_vars

\* C6: in every reachable state no tenant has autoReplyEnabled = true while its
\* trial is over and it has no subscription.
C6_NeverEnabledAfterTrial ==
  \A a \in Tenants : ~(AutoReplyOn(a) /\ TrialOverUnsubscribed(a))

\* C7: PATCH /businesses/:accountId asking for autoReplyEnabled = true for a
\* tenant whose trial is over and who is not subscribed answers 403 TRIAL_ENDED
\* and leaves the tenant store unchanged, whatever else the body carries.
C7_RejectedPatchWritesNothing ==
  [][\A a \in Tenants : \A body \in PatchBodies :
       (/\ Patch(a, body)
        /\ "autoReplyEnabled" \in body.has /\ body.autoReplyEnabled
        /\ TrialOverUnsubscribed(a))
       => (/\ resp' = Response("patch", a, 403, "TRIAL_ENDED")
           /\ businesses' = businesses)]_vars

C7_Witness ==
  /\ resp.op = "patch" /\ resp.status = 403 /\ resp.code = "TRIAL_ENDED"
  /\ TrialOverUnsubscribed(resp.acct)
  /\ ~businesses[resp.acct].autoReplyEnabled
  /\ businesses[resp.acct].contact = DEFAULT_CONTACT


\* the addresses an uploaded list contains, compared case-insensitively
ListedKeys(rows) == {toLowerCase(trim(rows[i].email)) : i \in 1..Len(rows)} \ {<<>>}

\* C8: when replaceProContacts has stored a new list, every address that was
\* unsubscribed in the store when the call read it and that the new list
\* contains (case-insensitively) is stored with unsubscribed_at set, in the
\* file-backed and in the database-backed store alike.
C8_UnsubscribeSurvivesReplace ==
  (call.pc = "respond" /\ call.op = "upload")
  => \A e \in call.pre \cap ListedKeys(call.rows) :
       /\ e \in UnsubscribedKeys(contacts[call.acct])
       /\ e \notin SubscribedKeys(contacts[call.acct])

C8_Witness ==
  /\ call.pc = "respond" /\ call.op = "upload"
  /\ \E e \in call.pre \cap ListedKeys(call.rows) :
       /\ e \in UnsubscribedKeys(contacts[call.acct])
       /\ \A i \in 1..Len(call.rows) :
            toLowerCase(trim(call.rows[i].email)) = e => call.rows[i].email # e

\* C9: once an address has unsubscribed for a tenant it is never again in the
\* set getProContactsForSending returns and no campaign mails it, whatever
\* contact lists are uploaded afterwards.
C9_OptOutSurvivesUploads ==
  useDb => \A a \in Tenants :
             /\ optedOut[a] \cap {StoredKey(c) : c \in Range(getProContactsForSending(a))} = {}
             /\ mailedAfterOptOut[a] = {}


\* what the claim reads in a birthday cell: a month and a day in the formats
\* YYYY-MM-DD, MM-DD and MM/DD
allDigits(s) == s # <<>> /\ \A k \in 1..Len(s) : isDigit(s[k])
isSep(c) == c = "-" \/ c = "/"
isYMD(s) ==
  /\ Len(s) = 10 /\ s[5] = "-" /\ s[8] = "-"
  /\ allDigits(SubSeq(s, 1, 4)) /\ allDigits(SubSeq(s, 6, 7)) /\ allDigits(SubSeq(s, 9, 10))
isMD(s) ==
  /\ Len(s) = 5 /\ isSep(s[3])
  /\ allDigits(SubSeq(s, 1, 2)) /\ allDigits(SubSeq(s, 4, 5))
statedMonth(s) == digitsValue(IF isYMD(s) THEN SubSeq(s, 6, 7) ELSE SubSeq(s, 1, 2), 0)
statedDay(s) == digitsValue(IF isYMD(s) THEN SubSeq(s, 9, 10) ELSE SubSeq(s, 4, 5), 0)
hasNoDigit(s) == \A k \in 1..Len(s) : ~isDigit(s[k])

\* C10: filterContactsWithBirthdayToday selects a contact whose birthday is a
\* YYYY-MM-DD, MM-DD or MM/DD string exactly on the dates with that month and
\* day, and never selects a contact whose birthday is unparseable.
C10_BirthdaySelectedOnItsDay ==
  birthdayContacts.ran =>
    \A i \in 1..Len(proList) :
      LET c == proList[i]
          selected == c \in Range(birthdayContacts.list)
      IN /\ (isYMD(c.birthday) \/ isMD(c.birthday))
              => (selected <=> (/\ statedMonth(c.birthday) = today.month
                                /\ statedDay(c.birthday) = today.day))
         /\ hasNoDigit(c.birthday) => ~selected

CalendarDate(eventKey, eventYear) ==
  CASE eventKey = "mothers_day" /\ eventYear = 2026 -> [year |-> 2026, month |-> 5, day |-> 10]
\* the row of the event campaign a due entry of the tick stands for
IdOf(e) == <<e.accountId, e.eventKey, e.eventYear>>
DispatchedNow(id) == campaignLog'.event[id] = campaignLog.event[id] + 1

\* C12: a campaign tick considers every confirmed, unsent event campaign, and
\* dispatches one exactly when it is confirmed and unsent and the tick's date
\* is the event's calendar date minus the campaign's sendDaysBefore
C12_EventDispatchedOnItsSendDay ==
  [][/\ EventsStart =>
          {IdOf(ctick'.eventDue[n]) : n \in 1..Len(ctick'.eventDue)}
            = {id \in EventIds : /\ eventCampaigns[id].exists
                                 /\ eventCampaigns[id].status = "confirmed"
                                 /\ eventCampaigns[id].sentAt = NullT}
     /\ EventNext =>
          LET e == Head(ctick.eventDue)
          IN DispatchedNow(IdOf(e))
               <=> /\ eventCampaigns[IdOf(e)].status = "confirmed"
                   /\ eventCampaigns[IdOf(e)].sentAt = NullT
                   /\ dayNumber(ctick.today)
                        = dayNumber(CalendarDate(e.eventKey, e.eventYear)) - e.sendDaysBefore
    ]_vars

\* a send call of the campaign tick is in flight for the campaign
InFlight(kind, id) == \E s \in sends : s.kind = kind /\ s.id = id

C14_SentIsTerminal ==
  [][\A id \in EventIds :
       eventCampaigns[id].status = "sent"
         => /\ eventCampaigns'[id].status = "sent"
            /\ eventCampaigns'[id].sentAt = eventCampaigns[id].sentAt]_vars

\* a one-off campaign that is scheduled for today or an earlier day
OneOffDue(n) ==
  oneOffs[n].status = "scheduled" /\ dayNumber(oneOffs[n].send_date) <= dayNumber(today)

C16_NoContactsStillSent ==
  [][LET e == Head(ctick.eventDue)
         id == IdOf(e)
     IN (/\ EventNext
         /\ DispatchedNow(id)
         /\ SubscribedKeys(contacts[e.accountId]) = {})
        => /\ eventCampaigns'[id].status = "sent"
           /\ eventCampaigns'[id].sentAt # NullT
           /\ ctick'.result.kind = "event" /\ ctick'.result.id = id
           /\ ctick'.result.sent = 0
           /\ sends' = sends]_vars
\* the campaign of a tenant without sendable contacts was dispatched
C16_Witness ==
  /\ ctick.result.kind = "event" /\ ctick.result.sent = 0
  /\ SubscribedKeys(contacts[ctick.result.acct]) = {}
  /\ eventCampaigns[ctick.result.id].status = "sent"
  /\ campaignLog.event[ctick.result.id] = 1

\* what PATCH /businesses/:accountId is to store for a body over the existing
\* record: each field of the body set, every other field kept
Merged(existing, body, f) == IF f \in body.has THEN body[f] ELSE existing[f]

\* C17: upsertBusiness stores the fields its caller specifies and keeps every
\* other field of the stored record, in file mode and in database mode alike
C17_UpsertKeepsAndSets ==
  [][\A a \in Tenants : \A body \in PatchBodies :
       (Patch(a, body) /\ resp'.status = 200)
         => \A f \in Fields :
              (f \in body.has \/ f \in businesses[a].has)
                => /\ f \in businesses'[a].has
                   /\ businesses'[a][f] = Merged(businesses[a], body, f)]_vars

\* the ids of the entries of a run's results.details with a status
DetailIds(r, status) ==
  {runs[r].details[k].reviewId :
     k \in {j \in 1..Len(runs[r].details) : runs[r].details[j].status = status}}
\* the step of run r is a failure of getReplyText or of replyToReview
FailureStep(r) == runs'[r].failed = runs[r].failed + 1
\* the step of run r is the write of writeState
WriteStep(r) ==
  /\ runs[r].pc = (IF useDb THEN "writeState" ELSE "writeFile")
  /\ runs'[r].pc # runs[r].pc
\* q started after p had returned, for the same account
RanAfter(p, q) ==
  /\ p # q /\ Proc(p) /\ Proc(q) /\ runs[p].acct = runs[q].acct
  /\ runs[p].pc = "done" /\ runs[p].outcome = "returned"
  /\ p \in runs[q].after
  /\ runs[q].pc \in {"getReplyText", "replyToReview", "writeState", "writeFile", "done"}
  /\ runs[q].outcome # "threw"

\* C18: a failure of generation or posting appends an error entry with the
\* error's message to the run's results and does not add the review id to the
\* set the run writes to the reply-state; the run that follows has the review
\* as a candidate again, unless a reply to it was posted in the meantime (by an
\* overlapping run or by the free reply), which makes it a replied review
C18_FailureIsRetriedNextRun ==
  /\ [][\A r \in RunIds :
          LET run == runs[r]
              rid == run.toReply[run.i]
          IN /\ (Proc(r) /\ FailureStep(r))
                  => /\ runs'[r].details
                          = Append(run.details,
                                   Detail(rid, "error",
                                          IF run.pc = "getReplyText"
                                          THEN GenerateError ELSE PostError))
                     /\ runs'[r].alreadyReplied = run.alreadyReplied
                     /\ rid \notin runs'[r].alreadyReplied
             /\ (Proc(r) /\ WriteStep(r))
                  => DetailIds(r, "error") \cap autoState'[run.acct] = {}]_vars
  /\ [](\A p \in RunIds : \A q \in RunIds :
          RanAfter(p, q)
            => \A rid \in DetailIds(p, "error") :
                 \/ rid \in Range(runs[q].toReply) \cup DetailIds(q, "ok")
                             \cup DetailIds(q, "error")
                 \/ gPosts[runs[p].acct][rid] > 0)
\* a run failed on a review and the run that followed replied to it
C18_Witness ==
  \E p \in RunIds : \E q \in RunIds :
    /\ RanAfter(p, q) /\ runs[q].pc = "done"
    /\ DetailIds(p, "error") \cap DetailIds(q, "ok") # {}

\* the step of run r is a failure of getReplyText
GenerateFailureStep(r) == runs[r].pc = "getReplyText" /\ FailureStep(r)

AtWork(r) == TickRun(r) /\ Live(r) /\ runs[r].pc # "readState"

\* C20: within one auto-reply tick and within one campaign tick the tenants
\* (and campaigns) are processed one after another: the work for one is
\* finished before the work for the next starts
C20_TicksProcessOneAtATime ==
  /\ Cardinality({r \in RunIds : AtWork(r)}) <= 1
  /\ Cardinality(sends) <= 1

\* C20, amended: within one campaign tick the tenants and campaigns are
\* processed one after another: a send call has returned before the next one
\* starts
C20_CampaignTickOneAtATime == Cardinality(sends) <= 1
\* a send call of the tick is in flight for one tenant after the send call for
\* another tenant has returned
C20_Witness ==
  /\ ctick.result.kind # Null
  /\ \E s \in sends : s.acct # ctick.result.acct

\* review rid of account a has no reply on the platform, a star rating in the
\* allowed set, and an id that is not in the loaded reply-state
Replyable(a, loaded, rid) ==
  /\ rid \notin gHasReply[a]
  /\ StarOf(rid) \in {"ONE", "TWO", "THREE", "FOUR", "FIVE"}
  /\ mapStarRatingToNumber(StarOf(rid)) \in allowedRatings
  /\ rid \notin loaded
\* the step of run r is the filter of the fetched review list
FilterStep(r) ==
  runs[r].pc = "listReviews" /\ runs'[r].pc \in {"getReplyText", "writeState"}

\* C21: processPendingReviews attempts a reply only for the reviews that at
\* filter time have no platform reply, an allowed star rating and an id outside
\* the loaded reply-state; every other review gets no attempt and no entry in
\* the result details
C21_AttemptsOnlyCandidates ==
  [][\A r \in RunIds :
       LET run == runs[r]
           a == run.acct
       IN Proc(r) =>
            /\ FilterStep(r)
                 => runs'[r].toReply
                      = SelectSeq(gReviews[a],
                                  LAMBDA rid : Replyable(a, run.loaded, rid))
            /\ runs'[r].attempted # run.attempted
                 => /\ run.i \in 1..Len(run.toReply)
                    /\ runs'[r].attempted = run.attempted + 1
            /\ runs'[r].details # run.details
                 => /\ Len(runs'[r].details) = Len(run.details) + 1
                    /\ runs'[r].details[Len(runs'[r].details)].reviewId
                         = run.toReply[run.i]
            /\ \A rid \in ReviewIds :
                 (gPosts'[a][rid] # gPosts[a][rid] /\ run.pc = "replyToReview"
                    /\ runs'[r] # run)
                   => rid = run.toReply[run.i]]_vars
\* a run returned after replying to one review of a list from which the filter
\* had dropped another
C21_Witness ==
  \E r \in RunIds :
    /\ Proc(r) /\ runs[r].pc = "done" /\ runs[r].outcome = "returned"
    /\ runs[r].succeeded = 1 /\ Len(runs[r].details) = 1
    /\ Len(runs[r].reviews) > 1

\* run r has fetched the review list
ListFetched(r) ==
  runs[r].pc \in {"getReplyText", "replyToReview", "writeState", "writeFile"}

\* C22: processPendingReviews throws only when the review list cannot be
\* fetched (a failure of readState or of listReviews); once the list was
\* fetched it does not throw and returns its summary
C22_ThrowsOnlyBeforeTheList ==
  [][\A r \in RunIds :
       (Proc(r) /\ ListFetched(r) /\ runs'[r].pc = "done"
          /\ runs'[r].outcome # "crashed")
         => runs'[r].outcome = "returned"]_vars

\* the step of run r is its return with the summary
ReturnStep(r) ==
  /\ runs[r].pc \in {"writeState", "writeFile"}
  /\ runs'[r].pc = "done" /\ runs'[r].outcome = "returned"
\* s is a subsequence of t (t has no review twice)
InOrderOf(s, t) == s = SelectSeq(t, LAMBDA x : x \in Range(s))

\* C23: the summary processPendingReviews returns has attempted = succeeded +
\* failed = number of detail entries = number of candidates; the entries are
\* in the order the platform returned the reviews, each with status ok or
\* error; the reply-state persisted by the run is the loaded set plus the ids
\* with status ok
C23_SummaryAddsUp ==
  [][\A r \in RunIds :
       LET run == runs[r]
           ret == runs'[r]
           ids == [k \in 1..Len(ret.details) |-> ret.details[k].reviewId]
       IN (Proc(r) /\ ReturnStep(r))
            => /\ ret.attempted = ret.succeeded + ret.failed
               /\ ret.attempted = Len(ret.details)
               /\ ret.attempted = Len(run.toReply)
               /\ ids = run.toReply
               /\ InOrderOf(ids, run.reviews)
               /\ \A k \in 1..Len(ret.details) :
                    ret.details[k].status \in {"ok", "error"}
               /\ ret.succeeded
                    = Cardinality({k \in 1..Len(ret.details) :
                                     ret.details[k].status = "ok"})
               /\ autoState'[run.acct]
                    = run.loaded \cup {ret.details[k].reviewId :
                                         k \in {j \in 1..Len(ret.details) :
                                                  ret.details[j].status = "ok"}}]_vars
\* a run returned a summary with one reply posted and one failure
C23_Witness ==
  \E r \in RunIds :
    /\ Proc(r) /\ runs[r].pc = "done" /\ runs[r].outcome = "returned"
    /\ runs[r].attempted = 2 /\ runs[r].succeeded = 1 /\ runs[r].failed = 1
    /\ autoState[runs[r].acct] = DetailIds(r, "ok")

\* the stored tenants eligible for a tick: auto-reply on and the trial not
\* over, or subscribed (the tenant set of C5)
EligibleTenants == {a \in Tenants : AutoReplyOn(a) /\ ~TrialOverUnsubscribed(a)}
LegacyConfigured == legacyEnv.accountId # Null /\ legacyEnv.locationId # Null

\* C24: a tick processes the legacy account/location pair only when no stored
\* tenant is eligible and both legacy values are configured; with an eligible
\* tenant the legacy pair is not processed, and with neither the tick
\* processes nothing
C24_LegacyPairOnlyAsFallback ==
  [][Tick =>
       /\ legacyEnv.accountId \in lastTick'.processed
            => (EligibleTenants = {} /\ LegacyConfigured)
       /\ EligibleTenants # {} => legacyEnv.accountId \notin lastTick'.processed
       /\ (EligibleTenants = {} /\ ~LegacyConfigured) => lastTick'.processed = {}]_vars

\* q is a call for the account of p that started after a crash cut p off
AfterCrash(p, q) ==
  /\ p # q /\ Proc(p) /\ Proc(q) /\ runs[p].acct = runs[q].acct
  /\ runs[p].outcome = "crashed"
  /\ p \in runs[q].after
\* the reviews run r has taken up: its candidates and its detail entries
TakenUp(r) ==
  Range(runs[r].toReply) \cup DetailIds(r, "ok") \cup DetailIds(r, "error")

\* C25: when the process crashes in the middle of a reply tick, after replies
\* were posted and before reply-state was persisted, a tick after the restart
\* replies to no review the crashed tick had replied to, and takes up again
\* every candidate of the crashed tick that has no reply yet
C25_CrashIsSafeToResume ==
  /\ [](\A p \in RunIds : \A q \in RunIds :
          AfterCrash(p, q) => DetailIds(p, "ok") \cap TakenUp(q) = {})
  /\ [](\A p \in RunIds : \A q \in RunIds :
          (AfterCrash(p, q) /\ runs[q].reviews # <<>>)
            => \A rid \in Range(runs[p].toReply) \ DetailIds(p, "ok") :
                 rid \in TakenUp(q) \/ gPosts[runs[p].acct][rid] > 0)
\* a tick replied to the first review and crashed; the tick after the restart
\* replied to the second review only
C25_Witness ==
  \E p \in RunIds : \E q \in RunIds :
    /\ AfterCrash(p, q)
    /\ DetailIds(p, "ok") = {1} /\ Len(runs[p].toReply) = 2
    /\ runs[q].pc = "done" /\ runs[q].outcome = "returned"
    /\ DetailIds(q, "ok") = {2} /\ runs[q].attempted = 1
    /\ gPosts[runs[p].acct][1] = 1

\* the addresses of the stored contacts of a that have an email and no
\* unsubscribed_at, in stored order
SendableAddresses(a) ==
  Emails(SelectSeq(contacts[a],
                   LAMBDA c : c.email # NullE /\ c.email # <<>>
                              /\ c.unsubscribed_at = NullT))
\* the send calls of a kind the step starts, and whether it ends call s
Started(kind) == {s \in sends' \ sends : s.kind = kind /\ s.tried = <<>>}
Returns(s) == s \in sends /\ s.queue = <<>> /\ s \notin sends'
\* the step is the tick calling sendEventCampaignForAccount for a due row
EventCall ==
  /\ ctick.pc = "events" /\ ctick.eventDue # <<>>
  /\ ctick'.pc = "events" /\ ctick'.eventDue = Tail(ctick.eventDue)
  /\ isSendDay(Head(ctick.eventDue), ctick.today)
\* campaign id is confirmed and unsent and its tenant is Pro
ConfirmedUnsentPro(id) ==
  /\ eventCampaigns[id].exists /\ eventCampaigns[id].status = "confirmed"
  /\ eventCampaigns[id].sentAt = NullT
  /\ businesses[id[1]].exists /\ "isPro" \in businesses[id[1]].has
  /\ businesses[id[1]].isPro
Oks(s) == {k \in 1..Len(s.tried) : s.tried[k].ok}

OneOffCall ==
  /\ ctick.pc = "oneoffs" /\ ctick.oneOffDue # <<>>
  /\ ctick'.pc = "oneoffs" /\ ctick'.oneOffDue = Tail(ctick.oneOffDue)

\* C27: every call of sendOneOffCampaign for a due scheduled one-off campaign
\* makes one pass over the contacts and ends with the campaign's status set to
\* sent, whether or not an email succeeded, so that no later tick selects it
C27_OneOffCallEndsSent ==
  [][/\ OneOffCall
          => \E s \in Started("oneoff") : s.id[3] = Head(ctick.oneOffDue).id
     /\ \A s \in sends :
          (s.kind = "oneoff" /\ Returns(s))
            => /\ oneOffs'[s.id[3]].status = "sent"
               /\ \A k \in 1..Len(getProOneOffCampaignsDueToSend') :
                    getProOneOffCampaignsDueToSend'[k].id # s.id[3]]_vars

\* C28: sendEventCampaignForAccount sends no email, leaves status and sentAt
\* as they are and returns sent = 0 when the campaign it re-fetches does not
\* exist, is not confirmed or has sentAt set, or when the tenant is not Pro
C28_EventGuardsAreNoOps ==
  [][EventCall
       => LET e == Head(ctick.eventDue)
              id == <<e.accountId, e.eventKey, e.eventYear>>
          IN ~ConfirmedUnsentPro(id)
               => /\ sends' = sends
                  /\ eventCampaigns' = eventCampaigns
                  /\ campaignLog' = campaignLog
                  /\ ctick'.result = Result("event", id[1], id, 0)]_vars
\* the tick called the function for the confirmed campaign of a tenant that is
\* not Pro: it returned 0 and the campaign is still confirmed and unsent
C28_Witness ==
  \E id \in EventIds :
    /\ ctick.result = Result("event", id[1], id, 0)
    /\ ~businesses[id[1]].isPro
    /\ eventCampaigns[id].status = "confirmed" /\ eventCampaigns[id].sentAt = NullT
    /\ sends = {}

\* the changes of status the state machine of an event campaign admits
StatusMoves ==
  {<<"pending", "confirmed">>, <<"confirmed", "confirmed">>,
   <<"confirmed", "sent">>, <<"pending", "skipped">>}
\* the step belongs to the campaign tick (and is no request)
SchedulerStep == ctick' # ctick \/ sends' # sends

\* C29: the status of an event campaign changes only along pending ->
\* confirmed, confirmed -> confirmed, confirmed -> sent (by the scheduler
\* only) and pending -> skipped; skipped and sent are terminal
C29_StatusFollowsStateMachine ==
  [][\A id \in EventIds :
       LET old == eventCampaigns[id]
           new == eventCampaigns'[id]
       IN (old.exists /\ new # old)
            => /\ new.exists
               /\ new.status = old.status \/ <<old.status, new.status>> \in StatusMoves
               /\ (new.status = "sent" /\ old.status # "sent") => SchedulerStep]_vars

\* C30: every campaign email goes to a contact of the campaign's own tenant
\* that had an email and no unsubscribed_at when the contact list was loaded
\* for that send, and no campaign email is sent for a tenant that is not Pro
C30_MailOnlyToSendableContactsOfPro ==
  /\ [][\A s \in sends' \ sends :
          s.tried = <<>>
            => /\ businesses[s.acct].exists /\ "isPro" \in businesses[s.acct].has
               /\ businesses[s.acct].isPro
               /\ s.queue = s.list
               /\ Range(s.list) \subseteq Range(SendableAddresses(s.acct))]_vars
  /\ [](\A s \in sends : \A k \in 1..Len(s.tried) : s.tried[k].to \in Range(s.list))
  /\ [][\A s \in sends : \A t \in sends' \ sends :
          (t.kind = s.kind /\ t.acct = s.acct /\ t.id = s.id)
            => /\ t.list = s.list
               /\ Len(t.tried) = Len(s.tried) + 1
               /\ t.tried[Len(t.tried)].to = Head(s.queue)]_vars
\* a send call has mailed the two sendable contacts of a tenant that also
\* stores a contact without email and an unsubscribed one
C30_Witness ==
  \E s \in sends :
    /\ s.acct = "a1" /\ Len(contacts["a1"]) = 4
    /\ Len(s.tried) = 2 /\ s.tried[1].ok /\ s.tried[2].ok
    /\ {s.tried[1].to, s.tried[2].to} = {<<"a">>, <<"d">>}

\* the positions of a stored list that hold the address k (<<>>: no address)
StoredAt(list, k) == {i \in 1..Len(list) : StoredKey(list[i]) = k}
\* the rows of an uploaded list that carry no address and the first name n
BareRows(rows, n) ==
  {i \in 1..Len(rows) : emailLower(rows[i]) = <<>> /\ firstName(rows[i]) = n}
UploadStored == call.pc = "respond" /\ call.op = "upload"

C32_NoTickErrorEscapes ==
  /\ ~lastTick.rejected
  /\ ctick.ended \in {"none", "returned", "failed"}

\* the send calls of the tick in flight that have rejected so far
Thrown(tick) == {k \in 1..Len(tick.done) : tick.done[k].threw}
\* a step in which a send call of the campaign tick rejects
SendThrows == Thrown(ctick') \ Thrown(ctick) # {}
\* the send calls the tick in flight has made for the tenants and rows it listed
Covered(tick) ==
  LET made(kind) == SelectSeq(tick.done, LAMBDA d : d.kind = kind)
      onDay == SelectSeq(tick.listed.event, LAMBDA e : isSendDay(e, tick.today))
  IN /\ [k \in 1..Len(made("birthday")) |-> made("birthday")[k].acct] = tick.listed.birthday
     /\ [k \in 1..Len(made("event")) |-> made("event")[k].id]
          = [k \in 1..Len(onDay) |-> <<onDay[k].accountId, onDay[k].eventKey, onDay[k].eventYear>>]
     /\ [k \in 1..Len(made("oneoff")) |-> made("oneoff")[k].id[3]]
          = [k \in 1..Len(tick.listed.oneoff) |-> tick.listed.oneoff[k].id]
     /\ tick.done = made("birthday") \o made("event") \o made("oneoff")

\* C33: in a campaign tick an error thrown by the send call of one tenant's
\* birthday emails, of one event campaign or of one one-off campaign is caught
\* and logged with the tenant or campaign it belongs to, the tick stays in its
\* step, it is given up only where the listing of a step rejects and never
\* with tenants or rows of a step left over, and when it returns it has made
\* the send call of every Pro tenant, of every due event campaign on its send
\* day and of every due one-off campaign, in this order.
C33_SendErrorsAreIsolated ==
  /\ [][SendThrows =>
          /\ Cardinality(Thrown(ctick') \ Thrown(ctick)) = 1
          /\ LET d == ctick'.done[CHOOSE k \in Thrown(ctick') \ Thrown(ctick) : TRUE]
             IN /\ Len(ctick'.log) = Len(ctick.log) + 1
                /\ ctick'.log[Len(ctick'.log)].acct = d.acct
                /\ ctick'.log[Len(ctick'.log)].id = d.id
          /\ ctick'.pc = ctick.pc
          /\ ctick'.ended = "none"]_vars
  /\ [][(ctick.pc # "idle" /\ ctick'.ended = "failed") =>
          ctick.proAccounts = <<>> /\ ctick.eventDue = <<>> /\ ctick.oneOffDue = <<>>]_vars
  /\ [][(ctick.pc # "idle" /\ ctick'.ended = "returned") => Covered(ctick)]_vars

C33_Witness ==
  /\ ctick.pc = "oneoffs" /\ ctick.oneOffDue = <<>> /\ sends = {}
  /\ Len(ctick.log) >= 2
  /\ \E k \in Thrown(ctick) : \E j \in (k + 1)..Len(ctick.done) :
       /\ ctick.done[k].kind = "birthday"
       /\ ctick.done[j].kind = "birthday" /\ ~ctick.done[j].threw
  /\ \E k \in Thrown(ctick) : ctick.done[k].kind = "event"
  /\ \E k \in 1..Len(ctick.done) : ctick.done[k].kind = "oneoff" /\ ~ctick.done[k].threw
  /\ Covered(ctick)

\* the /free-reply requests of tenant a whose replyToReview call succeeded
FreePosts(a) ==
  {r \in RunIds : runs[r].origin = "free" /\ runs[r].acct = a /\ runs[r].succeeded > 0}

\* C34: a tenant receives at most one free reply: once a /free-reply request
\* has posted a reply no later or concurrent /free-reply request of the tenant
\* posts one, and when the request has answered, the id of the review it
\* replied to is in the tenant's reply-state.
C34_AtMostOneFreeReply ==
  \A a \in Tenants :
    /\ Cardinality(FreePosts(a)) <= 1
    /\ \A r \in FreePosts(a) :
         runs[r].outcome = "returned" => runs[r].review \in autoState[a]

\* a step that changes stored contacts only by setting unsubscribed_at on
\* contacts of tenant a with the address key
OnlyUnsubscribes(a, key) ==
  \A b \in Tenants :
    /\ Len(contacts'[b]) = Len(contacts[b])
    /\ \A i \in 1..Len(contacts[b]) :
         contacts'[b][i] # contacts[b][i] =>
           /\ b = a
           /\ StoredKey(contacts[b][i]) = key
           /\ contacts'[b][i] = [contacts[b][i] EXCEPT !.unsubscribed_at = now]
\* what createUnsubscribeToken(a, e) has to verify as
Verified(accountId, email) ==
  [ok |-> TRUE, accountId |-> accountId, email |-> toLowerCase(trim(email))]
RoundTrip ==
  \A a \in Tenants : \A e \in TokenEmails :
    verifyUnsubscribeToken(createUnsubscribeToken(AccountText(a), e))
      = Verified(AccountText(a), e)
TokenGuardsTheStore ==
  \A token \in Tokens :
    GetProUnsubscribe(token) =>
      LET decoded == verifyUnsubscribeToken(token)
      IN /\ (~decoded.ok \/ token \notin IssuedTokens) =>
              contacts' = contacts /\ call' = call
         /\ OnlyUnsubscribes(AccountOf(decoded.accountId), decoded.email)
         /\ call' # call =>
              /\ call'.op = "unsubscribe"
              /\ call'.acct = AccountOf(decoded.accountId)
              /\ call'.email = decoded.email
FileUnsubscribeStep ==
  (call.op = "unsubscribe" /\ contacts' # contacts) =>
    OnlyUnsubscribes(call.acct, toLowerCase(trim(call.email)))

\* C35: GET /pro/unsubscribe changes contact state only for a token that
\* verifyUnsubscribeToken accepts, and then sets unsubscribed_at only on the
\* contacts of the token's own account and address; a token that
\* createUnsubscribeToken did not produce changes no contact of any tenant;
\* and verifyUnsubscribeToken(createUnsubscribeToken(a, e)) is (a, e trimmed
\* and in lower case).
C35_UnsubscribeTokenIsBound ==
  /\ []RoundTrip
  /\ [][TokenGuardsTheStore]_vars
  /\ [][FileUnsubscribeStep]_vars

\* C36: the /connected page and PATCH /businesses/:accountId agree on when a
\* trial has ended without subscription: for every stored tenant and every
\* time, the page finds trialEndedNoSubscription (and force-disables
\* autoReplyEnabled) exactly when the PATCH endpoint rejects a request to
\* enable it, also less than 24 hours after trialEndsAt.
C36_PageAndPatchAgree ==
  \A a \in Tenants :
    LET business == getBusiness(a)
    IN business.exists =>
         (trialEndedNoSubscription(business)
            <=> (trialEnded(business) /\ notSubscribed(business)))

(* -------------------- specification: requests in flight ---------------- *)
\* One tenant with a review waiting: a /free-reply request is in flight
\* while PATCH requests, /connected page loads and Stripe webhooks arrive.
InitRequests ==
  /\ useDb \in BOOLEAN
  /\ now = 0
  /\ \E sub \in {NullT, 0} :
       businesses = [a \in Tenants |->
                       IF a = "a1" THEN StoredBiz(TRUE, 1, sub) ELSE NoBiz]
  /\ legacyEnv = NoLegacy
  /\ allowedRatings = 1..5
  /\ autoState = EmptyState
  /\ gReviews = [a \in Tenants |-> IF a = "a1" THEN <<1>> ELSE <<>>]
  /\ gHasReply = [a \in Tenants |-> {}]
  /\ gPosts = [a \in Tenants |-> [r \in ReviewIds |-> 0]]
  /\ runs = [r \in RunIds |-> FreeRun]
  /\ lastTick = NoTick
  /\ resp = NoResp
  /\ InitPro
  /\ InitCamp

NextRequests ==
  \/ AvailableSlots = RunIds /\ FreeReplyStart("a1")
  \/ \E r \in RunIds : StepFree(r)
  \/ \E r \in RunIds : WriteStateDb(r) \/ WriteStateReadAll(r) \/ WriteStateWriteFile(r)
  \/ \E body \in PatchBodies : Patch("a1", body)
  \/ ConnectedPage("a1")
  \/ \E isPro \in BOOLEAN : WebhookCheckoutCompleted("a1", "cus1", isPro)
  \/ AdvanceClock

SpecRequests == InitRequests /\ [][NextRequests]_vars

\* field f of the stored record is what it was before the step
FieldKept(a, f) ==
  f \in businesses[a].has =>
    f \in businesses'[a].has /\ businesses'[a][f] = businesses[a][f]

\* C37: a request that changes one tenant field leaves every other field of
\* the stored record at its most recently written value: the write of
\* /free-reply (freeReplyUsed) and the write of a PATCH that carries
\* autoReplyEnabled only change no other field of the record as it is
\* stored at the time of the write, whatever was written since the request
\* read the record.
C37_OtherFieldsKeepLatestValue ==
  /\ [][\A r \in RunIds :
          FrUpsert(r) =>
            \A f \in Fields \ {"freeReplyUsed"} : FieldKept(runs[r].acct, f)]_vars
  /\ [][\A body \in PatchBodies :
          (body.has = {"autoReplyEnabled"} /\ Patch("a1", body)) =>
            \A f \in Fields \ {"autoReplyEnabled"} : FieldKept("a1", f)]_vars

(* -------------------- specification: unsubscribe during an upload ------ *)
\* the list tenant a1 has stored: nobody has unsubscribed yet
SubscribedList == <<Contact(<<"a">>, <<"x">>, NullT), Contact(<<"b">>, <<"x">>, NullT)>>

InitRace ==
  /\ useDb \in BOOLEAN
  /\ now = 1
  /\ businesses = [a \in Tenants |-> IF a = "a1" THEN ProBiz ELSE NoBiz]
  /\ legacyEnv = NoLegacy
  /\ allowedRatings = 1..5
  /\ autoState = EmptyState
  /\ gReviews = [a \in Tenants |-> <<>>]
  /\ gHasReply = [a \in Tenants |-> {}]
  /\ gPosts = [a \in Tenants |-> [r \in ReviewIds |-> 0]]
  /\ runs = [r \in RunIds |-> FreeRun]
  /\ lastTick = NoTick
  /\ resp = NoResp
  /\ contacts = [a \in Tenants |-> IF a = "a1" THEN SubscribedList ELSE <<>>]
  /\ call = FreeCall
  /\ optedOut = [a \in Tenants |-> {}]
  /\ mailedAfterOptOut = [a \in Tenants |-> {}]
  /\ today = [year |-> 2024, month |-> 1, day |-> 1]
  /\ proList = <<>>
  /\ birthdayContacts = NotRun
  /\ InitCamp

\* one upload, and unsubscribe requests that arrive while it is in flight
NextRace ==
  \/ resp = NoResp /\ \E rows \in UploadLists : UploadContacts("a1", rows)
  \/ \E email \in UnsubscribeEmails : UnsubscribeDuringUpload("a1", email)
  \/ StepCall

SpecRace == InitRace /\ [][NextRace]_vars

\* C38: an unsubscribe that interleaves with a contact-list upload of the
\* same tenant is never lost: when the upload has stored its list and the
\* unsubscribe has been answered, every address that unsubscribed and that
\* the uploaded list contains is stored with unsubscribed_at set.
C38_UnsubscribeSurvivesConcurrentUpload ==
  (call.pc = "respond" /\ call.op = "upload")
  => \A e \in optedOut[call.acct] \cap ListedKeys(call.rows) :
       /\ e \in UnsubscribedKeys(contacts[call.acct])
       /\ e \notin SubscribedKeys(contacts[call.acct])

\* C39: in file-backed mode, when one auto-reply tick processes several
\* tenants, the reply-state stored for each tenant after the tick contains
\* every review id that tenant's run replied to: once every run of the tick
\* has returned, no id a run posted a reply for is missing from the stored
\* reply-state of its tenant.
C39_TickKeepsEveryTenantsState ==
  (/\ ~useDb
   /\ lastTick.fired
   /\ \A r \in RunIds : runs[r].pc \in {"free", "done"})
  => \A r \in RunIds :
       (runs[r].pc = "done" /\ runs[r].outcome = "returned")
         => OkIds(r) \subseteq autoState[runs[r].acct]

====
